---- MODULE Spec2Model ----
(***************************************************************************)
(* livestream-dl: HLS capture pipeline.                                    *)
(*                                                                         *)
(*   m3u8_fetcher (one per stream) --unbounded channel--> buffer_unordered *)
(*   (fetch_segment, at most K in flight) --> writer loop (save_segment,   *)
(*   ledger of downloaded segments) --> remux (concat_streams, mux) -->    *)
(*   join of the fetcher handles --> main's exit status.                   *)
(*                                                                         *)
(* Atomicity follows the await points of the async code.                   *)
(***************************************************************************)
EXTENDS Integers, Sequences, FiniteSets, TLC

\* ------------------------------------------------------------------ bounds
\* streams of the session (keys of Livestream::streams)
Streams == {"main", "audio"}
\* largest EXT-X-MEDIA-SEQUENCE a fetched playlist starts at
MaxMediaSeq == 1
\* largest EXT-X-DISCONTINUITY-SEQUENCE of a fetched playlist
MaxDisconSeq == 1
\* largest number of segments in a fetched playlist
MaxSegs == 2
\* largest --max-concurrent-downloads of a session
MaxConcurrent == 2
\* new segments the servers publish in a bounded session, all streams together
MaxPublished == 2
\* lines of a cookie file
MaxLines == 2

\* ------------------------------------------------------------- data model
\* Option::None of last_seg
NoKey == <<-1, -1>>

\* (discon_seq, seq) tuples compare lexicographically
KeyLT(a, b) == a[1] < b[1] \/ (a[1] = b[1] /\ a[2] < b[2])
KeyGE(a, b) == ~KeyLT(a, b)

BoolSeqs(n) == UNION {[1..m -> BOOLEAN] : m \in 0..n}

\* a parsed media playlist: media_sequence, discontinuity_sequence, the
\* discontinuity flag of each segment, end_list
Playlists ==
    [media_sequence : 0..MaxMediaSeq,
     discontinuity_sequence : 0..MaxDisconSeq,
     segments : BoolSeqs(MaxSegs),
     end_list : BOOLEAN]

VARIABLES
    \* session, fixed by Livestream::new and the command line
    streams,        \* keys of Livestream::streams
    no_remux,       \* --no-remux
    max_concurrent_downloads,   \* --max-concurrent-downloads
    \* the servers of the session
    sliding,        \* playlists start at any media and discontinuity sequence
    discontinuities,    \* playlists carry EXT-X-DISCONTINUITY tags
    \* Stopper
    flag,           \* Mutex<bool> of the Stopper
    sig,            \* signal task: "idle", "flagged" (inside stop()), "done"
    users,          \* tasks that call the methods of a Stopper clone themselves
    \* m3u8_fetcher, per stream
    ppc,            \* fetcher task: "polling" (request sent), "waiting" (in
                    \* the select), "checking", "ended", "stopped", "failed"
    last_seg,       \* last new (discon_seq, seq), or NoKey
    quota,          \* new segments the servers may still publish
    \* channel and download pool
    chan,           \* mpsc::unbounded contents
    inflight,       \* fetch_segment futures held by buffer_unordered
    \* writer loop of Livestream::download
    wpc,            \* "select", "check", "saving", "done"
    wcur,           \* completion taken from the pool
    ledger,         \* downloaded_segments: per stream, BinaryHeap contents
    files,          \* segment files on disk, in order of creation
    \* download() after the writer loop, remux, main
    dpc,            \* "capture", "concat", "mux", "join", "ok", "err", "panicked"
    concat_files,   \* intermediate concatenated files on disk
    discons,        \* result of concat_streams
    muxed,          \* discontinuities muxed so far
    outputs,        \* muxed output files, each with the command that made it
    remux_res,      \* "none", "ok", "concat_err", "mux_err", "remove_err"
    joined,         \* fetcher handles already awaited
    exit_status,    \* -1 while the process runs, else its exit status
    \* one function of the program, run on its own
    call,           \* <<>>, or <<arguments>> of the function
    result,         \* <<>> before the function returns, then <<its result>>
    \* the initialization caches, run on their own
    init_lrus,      \* per stream, Arc<Mutex<LruCache<RemoteData, Vec<u8>>>>
    fetches         \* fetch_segment futures of the pool, by slot

cacheVars == <<init_lrus, fetches>>
sessionVars == <<streams, no_remux, max_concurrent_downloads, sliding, discontinuities,
                 call, result, cacheVars>>
stopperVars == <<flag, sig, users>>
fetcherVars == <<ppc, last_seg, quota>>
poolVars == <<chan, inflight>>
writerVars == <<wpc, wcur, ledger, files>>
remuxVars == <<concat_files, discons, muxed, outputs, remux_res>>
mainVars == <<dpc, joined, exit_status>>
vars == <<sessionVars, stopperVars, fetcherVars, poolVars, writerVars,
          remuxVars, mainVars>>

Item(t, k) == [stream |-> t, key |-> k]
NoItem == [stream |-> "none", key |-> NoKey, res |-> "none"]

\* positions in which a fetcher task has returned
Terminal == {"ended", "stopped", "failed"}

\* ---------------------------------------------------------------- Stopper
\* tasks that hold a clone of the Stopper and call its methods in any order
Users == {"u1", "u2", "u3"}

\* no task is inside a method, none has called one
NoUse ==
    [pc |-> [u \in Users |-> "idle"],
     woken |-> [u \in Users |-> FALSE],
     seen |-> [u \in Users |-> "none"],
     began |-> [u \in Users |-> 0],
     stops |-> 0]

\* Stopper::new: flag false
StopperInit == flag = FALSE /\ sig = "idle" /\ users = NoUse

\* Stopper::stopped
stopped == flag

\* first half of Stopper::stop, called by the interrupt task of main: the
\* flag is set under its lock
StopSetFlag ==
    /\ exit_status = -1
    /\ sig = "idle"
    /\ flag' = TRUE
    /\ sig' = "flagged"
    /\ UNCHANGED <<users, sessionVars, fetcherVars, poolVars, writerVars, remuxVars, mainVars>>

\* second half of Stopper::stop: notify_waiters wakes exactly the tasks that
\* are suspended in wait() now (fetchers in their select, the writer in its
\* select) and stores no permit for later waiters
StopNotify ==
    /\ exit_status = -1
    /\ sig = "flagged"
    /\ sig' = "done"
    /\ ppc' = [t \in Streams |-> IF ppc[t] = "waiting" THEN "checking" ELSE ppc[t]]
    /\ wpc' = IF wpc = "select" THEN "done" ELSE wpc
    /\ UNCHANGED <<flag, users, sessionVars, last_seg, quota, poolVars,
                   wcur, ledger, files, remuxVars, mainVars>>

\* an interrupt task that waits for the second interrupt while stop() runs
ForceStopEarly ==
    /\ exit_status = -1
    /\ sig \in {"flagged", "done"}
    /\ exit_status' = 1
    /\ UNCHANGED <<dpc, joined, sessionVars, stopperVars, fetcherVars, poolVars,
                   writerVars, remuxVars>>

\* the interrupt task of main after stop() has returned: a second interrupt
\* ends the process at once with status 1
ForceStop ==
    /\ exit_status = -1
    /\ sig = "done"
    /\ exit_status' = 1
    /\ UNCHANGED <<dpc, joined, sessionVars, stopperVars, fetcherVars, poolVars,
                   writerVars, remuxVars>>

\* the methods of the Stopper, called by the tasks of Users
\* calls of stop() the tasks make in all
MaxStops == 2

OtherVars == <<sessionVars, fetcherVars, poolVars, writerVars, remuxVars, mainVars>>

\* notify_waiters leaves a permit for a later notified()
PermitAfterStop == users.stops > 0

\* notify_waiters stores no permit
StoresPermit == FALSE

\* Stopper::wait begins: notified() is created and awaited
UserWait(u) ==
    /\ users.pc[u] = "idle"
    /\ users' = [users EXCEPT
                    !.pc[u] = IF StoresPermit THEN "idle" ELSE "waiting",
                    !.woken[u] = StoresPermit,
                    !.seen[u] = "none",
                    !.began[u] = users.stops]
    /\ UNCHANGED <<flag, sig, OtherVars>>

\* Stopper::stopped: the flag is read under its lock
UserStopped(u) ==
    /\ users.pc[u] = "idle"
    /\ users' = [users EXCEPT
                    !.seen[u] = IF flag THEN "true" ELSE "false",
                    !.began[u] = IF users.woken[u] THEN @ ELSE users.stops]
    /\ UNCHANGED <<flag, sig, OtherVars>>

\* the flag negated
Negated(f) == ~f

\* "*self.0 .1.lock().await = true"
StopValue(f) == TRUE

\* first statement of Stopper::stop
UserStopSet(u) ==
    /\ users.pc[u] = "idle"
    /\ users.stops + Cardinality({v \in Users : users.pc[v] = "stopping"}) < MaxStops
    /\ flag' = StopValue(flag)
    /\ users' = [users EXCEPT !.pc[u] = "stopping", !.woken[u] = FALSE,
                              !.seen[u] = "none"]
    /\ UNCHANGED <<sig, OtherVars>>

\* one of the tasks suspended in wait(), as notify_one would wake
SuspendedOne ==
    IF \E v \in Users : users.pc[v] = "waiting"
    THEN {CHOOSE v \in Users : users.pc[v] = "waiting"}
    ELSE {}

\* the tasks suspended in wait(): notify_waiters wakes them all
Suspended == {v \in Users : users.pc[v] = "waiting"}

\* second statement of Stopper::stop, after which stop() returns
UserStopNotify(u) ==
    /\ users.pc[u] = "stopping"
    /\ users' = [users EXCEPT
                    !.pc = [v \in Users |->
                              IF v = u \/ v \in Suspended THEN "idle" ELSE @[v]],
                    !.woken = [v \in Users |-> IF v \in Suspended THEN TRUE ELSE @[v]],
                    !.stops = @ + 1]
    /\ UNCHANGED <<flag, sig, OtherVars>>

\* ----------------------------------------------------------- m3u8_fetcher
\* "Skip segment if already downloaded": last_seg >= (discon_seq, seq)
AlreadyDownloadedStrict(last, key) == last # NoKey /\ KeyLT(key, last)

\* the sequence numbers alone compared
AlreadyDownloadedBySeq(last, key) == last # NoKey /\ last[2] >= key[2]

AlreadyDownloaded(last, key) == last # NoKey /\ KeyGE(last, key)

\* discon_offset after the segment at index i of playlist p
OffsetAt(p, i, off) == off + (IF p.segments[i] THEN 1 ELSE 0)

\* discon_offset read before the flag of the segment at index i is counted
KeyAtBefore(p, i, off) ==
    <<p.discontinuity_sequence + off, p.media_sequence + (i - 1)>>

\* (discon_seq, seq) of the segment at index i of playlist p
KeyAt(p, i, off) ==
    <<p.discontinuity_sequence + OffsetAt(p, i, off), p.media_sequence + (i - 1)>>

\* the loop over media_playlist.segments from index i on, up to and without
\* index n: off = discon_offset, last = last_seg, sent = the keys of the
\* Sequence segments sent on the channel so far in this cycle
RECURSIVE ScanSegments(_, _, _, _, _, _)
ScanSegments(p, i, n, off, last, sent) ==
    IF i >= n THEN [last_seg |-> last, sent |-> sent, discon_offset |-> off]
    ELSE LET key == KeyAt(p, i, off)
         IN IF AlreadyDownloaded(last, key)
            THEN ScanSegments(p, i + 1, n, OffsetAt(p, i, off), last, sent)
            ELSE ScanSegments(p, i + 1, n, OffsetAt(p, i, off), key, Append(sent, key))

\* one whole cycle over playlist p
Cycle(p, last) == ScanSegments(p, 1, Len(p.segments) + 1, 0, last, <<>>)

\* after the loop over the segments: return Ok on end_list, otherwise enter
\* the select of notify_stop.wait() and sleep_until
AfterLoopSleeps(p) == "waiting"

AfterLoop(p) == IF p.end_list THEN "ended" ELSE "waiting"

\* playlists the server of stream t may answer with
Offered(t) ==
    {p \in Playlists :
        /\ sliding \/ (p.media_sequence = 0 /\ p.discontinuity_sequence = 0)
        /\ discontinuities \/ \A i \in 1..Len(p.segments) : ~p.segments[i]
        /\ Len(Cycle(p, last_seg[t]).sent) <= quota}

Items(t, keys) == [i \in 1..Len(keys) |-> Item(t, keys[i])]

\* the playlist request succeeds, the body parses, and the loop over the
\* segments runs to its end; the receiver of the channel lives as long as
\* download() runs, so every unbounded_send succeeds
FetchPlaylistOf(t, p) ==
    /\ exit_status = -1
    /\ ppc[t] = "polling"
    /\ LET c == Cycle(p, last_seg[t])
       IN /\ quota' = quota - Len(c.sent)
          /\ last_seg' = [last_seg EXCEPT ![t] = c.last_seg]
          /\ chan' = chan \o Items(t, c.sent)
          /\ ppc' = [ppc EXCEPT ![t] = AfterLoop(p)]
    /\ UNCHANGED <<inflight, streams, no_remux, max_concurrent_downloads,
                   sliding, discontinuities, result, cacheVars, stopperVars,
                   writerVars, remuxVars, mainVars>>

FetchPlaylist(t) ==
    /\ ppc[t] = "polling"
    /\ \E p \in Offered(t) : FetchPlaylistOf(t, p) /\ UNCHANGED call

\* the failing task takes its queued tuples with it
FetchPlaylistFailDrops(t) ==
    /\ exit_status = -1
    /\ ppc[t] = "polling"
    /\ ppc' = [ppc EXCEPT ![t] = "failed"]
    /\ chan' = SelectSeq(chan, LAMBDA it : it.stream # t)
    /\ UNCHANGED <<last_seg, quota, inflight, sessionVars, stopperVars,
                   writerVars, remuxVars, mainVars>>

\* the playlist request or parse_media_playlist fails: the task returns Err
FetchPlaylistFail(t) ==
    /\ exit_status = -1
    /\ ppc[t] = "polling"
    /\ ppc' = [ppc EXCEPT ![t] = "failed"]
    /\ UNCHANGED <<last_seg, quota, sessionVars, stopperVars, poolVars,
                   writerVars, remuxVars, mainVars>>

\* the playlist is fetched, but its new segment at index f carries a key tag
\* Encryption::new rejects, or a URI make_absolute_url rejects: the segments
\* before it are sent, then the task returns Err
SegmentFail(t) ==
    /\ exit_status = -1
    /\ ppc[t] = "polling"
    /\ \E p \in Offered(t) : \E f \in 1..Len(p.segments) :
         LET c == ScanSegments(p, 1, f, 0, last_seg[t], <<>>)
         IN /\ ~AlreadyDownloaded(c.last_seg, KeyAt(p, f, c.discon_offset))
            /\ quota' = quota - Len(c.sent)
            /\ last_seg' = [last_seg EXCEPT ![t] = c.last_seg]
            /\ chan' = chan \o Items(t, c.sent)
            /\ ppc' = [ppc EXCEPT ![t] = "failed"]
    /\ UNCHANGED <<inflight, sessionVars, stopperVars, writerVars, remuxVars,
                   mainVars>>

\* sleep_until wins the select
SleepElapsed(t) ==
    /\ exit_status = -1
    /\ ppc[t] = "waiting"
    /\ ppc' = [ppc EXCEPT ![t] = "checking"]
    /\ UNCHANGED <<last_seg, quota, sessionVars, stopperVars, poolVars,
                   writerVars, remuxVars, mainVars>>

\* "Return if stopped"
FetcherIgnoresStop == FALSE

\* "if notify_stop.stopped().await { return Ok(()) }"
FetcherReturns == stopped

CheckStopped(t) ==
    /\ exit_status = -1
    /\ ppc[t] = "checking"
    /\ ppc' = [ppc EXCEPT ![t] = IF FetcherReturns THEN "stopped" ELSE "polling"]
    /\ UNCHANGED <<last_seg, quota, sessionVars, stopperVars, poolVars,
                   writerVars, remuxVars, mainVars>>

Fetcher(t) ==
    \/ FetchPlaylist(t)
    \/ FetchPlaylistFail(t)
    \/ SegmentFail(t)
    \/ SleepElapsed(t)
    \/ CheckStopped(t)

\* download() spawns one fetcher per stream of the session
FetcherInit ==
    /\ ppc = [t \in Streams |-> IF t \in streams THEN "polling" ELSE "absent"]
    /\ last_seg = [t \in Streams |-> NoKey]

\* ------------------------------------------------- bounded download pool
\* buffer_unordered(max_concurrent_downloads) takes the next channel item
\* only while fewer than max futures are in progress
PoolHasRoomInclusive(n) == n <= max_concurrent_downloads

PoolHasRoom(n) == n < max_concurrent_downloads

\* buffered.next() is polled by the writer's select only: the pool maps the
\* head of the channel to a fetch_segment future and holds it in progress
StartFetch ==
    /\ exit_status = -1
    /\ wpc = "select"
    /\ chan # <<>>
    /\ PoolHasRoom(Cardinality(inflight))
    /\ inflight' = inflight \cup {Head(chan)}
    /\ chan' = Tail(chan)
    /\ UNCHANGED <<sessionVars, stopperVars, fetcherVars, writerVars, remuxVars,
                   mainVars>>

\* a fetch_segment future completes, in any order, with Ok((stream, segment,
\* bytes)) or with Err (transport error, non-2xx segment response, key fetch
\* failure, malformed IV, bad padding); the select hands it to the loop body
FetchDone(it, res) ==
    /\ exit_status = -1
    /\ wpc = "select"
    /\ it \in inflight
    /\ inflight' = inflight \ {it}
    /\ wcur' = [stream |-> it.stream, key |-> it.key, res |-> res]
    /\ wpc' = "check"
    /\ UNCHANGED <<chan, ledger, files, sessionVars, stopperVars, fetcherVars,
                   remuxVars, mainVars>>

\* Encryption::decrypt slices &body[..16] of the key response: a response
\* shorter than 16 bytes panics inside the future polled by download()
FetchPanic(it) ==
    /\ exit_status = -1
    /\ wpc = "select"
    /\ it \in inflight
    /\ inflight' = inflight \ {it}
    /\ dpc' = "panicked"
    /\ exit_status' = 101
    /\ UNCHANGED <<chan, writerVars, sessionVars, stopperVars, fetcherVars,
                   remuxVars, joined>>

PoolEndEarly ==
    /\ exit_status = -1
    /\ wpc = "select"
    /\ chan = <<>>
    /\ \A t \in streams : ppc[t] \in Terminal
    /\ wpc' = "done"
    /\ UNCHANGED <<wcur, ledger, files, sessionVars, stopperVars, fetcherVars,
                   poolVars, remuxVars, mainVars>>

\* buffered.next() yields None: every sender is dropped (each fetcher task
\* has returned) and nothing is queued or in progress
PoolEnd ==
    /\ exit_status = -1
    /\ wpc = "select"
    /\ chan = <<>>
    /\ inflight = {}
    /\ \A t \in streams : ppc[t] \in Terminal
    /\ wpc' = "done"
    /\ UNCHANGED <<wcur, ledger, files, sessionVars, stopperVars, fetcherVars,
                   poolVars, remuxVars, mainVars>>

\* ------------------------------------------------------------ writer loop
\* order of (Segment, PathBuf) entries inside the BinaryHeap
SegmentLT(a, b) == KeyLT(a, b)

Swap(h, i, j) == [h EXCEPT ![i] = h[j], ![j] = h[i]]

\* BinaryHeap::sift_up
RECURSIVE SiftUp(_, _)
SiftUp(h, pos) ==
    IF pos = 1 THEN h
    ELSE LET parent == pos \div 2
         IN IF ~SegmentLT(h[parent], h[pos]) THEN h
            ELSE SiftUp(Swap(h, parent, pos), parent)

\* BinaryHeap::push
HeapPush(h, k) == SiftUp(Append(h, k), Len(h) + 1)

WriterIgnoresStop == FALSE

\* "if stopper.stopped().await { break }"
WriterBreaks == stopped

\* "Quit immediately if stopped", then the match on the completion: an Err
\* is logged as a warning and dropped, an Ok goes to save_segment
WriterCheck ==
    /\ exit_status = -1
    /\ wpc = "check"
    /\ IF WriterBreaks
       THEN /\ wpc' = "done"
            /\ wcur' = NoItem
       ELSE IF wcur.res = "err"
            THEN /\ wpc' = "select"
                 /\ wcur' = NoItem
            ELSE /\ wpc' = "saving"
                 /\ UNCHANGED wcur
    /\ UNCHANGED <<ledger, files, sessionVars, stopperVars, fetcherVars, poolVars,
                   remuxVars, mainVars>>

\* save_segment succeeds: the file is written, then the entry is pushed
SaveSegment ==
    /\ exit_status = -1
    /\ wpc = "saving"
    /\ files' = Append(files, Item(wcur.stream, wcur.key))
    /\ ledger' = [ledger EXCEPT ![wcur.stream] = HeapPush(@, wcur.key)]
    /\ wpc' = "select"
    /\ wcur' = NoItem
    /\ UNCHANGED <<sessionVars, stopperVars, fetcherVars, poolVars, remuxVars,
                   mainVars>>

\* a save_segment that pushes the entry before it writes the file
SaveSegmentFailPushes(created) ==
    /\ exit_status = -1
    /\ wpc = "saving"
    /\ files' = IF created THEN Append(files, Item(wcur.stream, wcur.key)) ELSE files
    /\ ledger' = [ledger EXCEPT ![wcur.stream] = HeapPush(@, wcur.key)]
    /\ wpc' = "select"
    /\ wcur' = NoItem
    /\ UNCHANGED <<sessionVars, stopperVars, fetcherVars, poolVars, remuxVars,
                   mainVars>>

\* save_segment fails in the probe or create_dir_all (no file) or in
\* write_all (file created): a warning is logged, nothing is pushed
SaveSegmentFail(created) ==
    /\ exit_status = -1
    /\ wpc = "saving"
    /\ files' = IF created THEN Append(files, Item(wcur.stream, wcur.key)) ELSE files
    /\ wpc' = "select"
    /\ wcur' = NoItem
    /\ UNCHANGED <<ledger, sessionVars, stopperVars, fetcherVars, poolVars,
                   remuxVars, mainVars>>

Pool ==
    \/ StartFetch
    \/ \E it \in inflight : \E res \in {"ok", "err"} : FetchDone(it, res)
    \/ \E it \in inflight : FetchPanic(it)
    \/ PoolEnd

Writer ==
    \/ WriterCheck
    \/ SaveSegment
    \/ \E created \in BOOLEAN : SaveSegmentFail(created)

PoolInit == chan = <<>> /\ inflight = {}

\* init_lrus of Livestream::download: one empty cache per stream, unlocked;
\* no fetch_segment future yet
NoResource == <<>>
FreeSlot == [pc |-> "free", stream |-> "none", init |-> NoResource,
             init_bytes |-> <<>>, how |-> "none", raced |-> "no"]
EmptyLru == [entries |-> <<>>, owner |-> 0]
CacheInit ==
    /\ init_lrus = [t \in Streams |-> EmptyLru]
    /\ fetches = [d \in 1..max_concurrent_downloads |-> FreeSlot]

WriterInit ==
    /\ wpc = "select"
    /\ wcur = NoItem
    /\ ledger = [t \in Streams |-> <<>>]
    /\ files = <<>>

\* ------------------------------------------------------------------ remux
\* smallest entry of a non-empty heap
MinOf(h) ==
    CHOOSE i \in 1..Len(h) : \A j \in 1..Len(h) : ~SegmentLT(h[j], h[i])

Without(h, i) == [j \in 1..(Len(h) - 1) |-> IF j < i THEN h[j] ELSE h[j + 1]]

\* the entries of a heap in ascending order
RECURSIVE Ascending(_)
Ascending(h) ==
    IF h = <<>> THEN <<>>
    ELSE LET i == MinOf(h) IN <<h[i]>> \o Ascending(Without(h, i))

IntoVec(h) == h

\* hand-over of a stream's BinaryHeap to remux as a Vec in ascending order
IntoSortedVec(h) == Ascending(h)

\* downloaded_paths as remux receives it
DownloadedPaths == [t \in Streams |-> IntoSortedVec(ledger[t])]

Run(t, d, segs) == [stream |-> t, d |-> d, segs |-> segs]

\* the loop of concat_streams without its last step
RECURSIVE ConcatStreamNoLast(_, _, _, _, _, _)
ConcatStreamNoLast(t, v, i, cur, stp, acc) ==
    IF i > Len(v)
    THEN acc
    ELSE LET d == v[i][1]
             cur1 == IF cur = -1 THEN d ELSE cur
         IN IF cur1 = d
            THEN ConcatStreamNoLast(t, v, i + 1, cur1, Append(stp, v[i]), acc)
            ELSE ConcatStreamNoLast(t, v, i + 1, d, <<v[i]>>,
                                    IF stp # <<>> THEN Append(acc, Run(t, cur1, stp)) ELSE acc)

\* the loop of concat_streams over one stream's segments: v from index i on,
\* cur = cur_discon_seq (-1 for None), stp = segments_to_process, acc = the
\* (discon_seq, concatenated file) pairs pushed so far
RECURSIVE ConcatStream(_, _, _, _, _, _)
ConcatStream(t, v, i, cur, stp, acc) ==
    IF i > Len(v)
    THEN IF stp # <<>> THEN Append(acc, Run(t, cur, stp)) ELSE acc
    ELSE LET d == v[i][1]
             cur1 == IF cur = -1 THEN d ELSE cur
         IN IF cur1 = d
            THEN ConcatStream(t, v, i + 1, cur1, Append(stp, v[i]), acc)
            ELSE ConcatStream(t, v, i + 1, d, <<v[i]>>,
                              IF stp # <<>> THEN Append(acc, Run(t, cur1, stp)) ELSE acc)

\* concat_streams over the streams in the iteration order of the HashMap
RECURSIVE ConcatStreams(_, _)
ConcatStreams(paths, order) ==
    IF order = <<>> THEN <<>>
    ELSE ConcatStream(Head(order), paths[Head(order)], 1, -1, <<>>, <<>>)
            \o ConcatStreams(paths, Tail(order))

\* iteration orders a HashMap keyed by stream can have
StreamOrders ==
    {o \in [1..Cardinality(Streams) -> Streams] :
        \A i, j \in 1..Cardinality(Streams) : i # j => o[i] # o[j]}

\* a concatenated file is created at gen_concat_path(stream, discon_seq); a
\* later file at the same path replaces the earlier one
WriteConcat(fs, r) ==
    {f \in fs : ~(f.stream = r.stream /\ f.d = r.d)} \cup {r}

RECURSIVE WriteConcats(_, _)
WriteConcats(fs, runs) ==
    IF runs = <<>> THEN fs
    ELSE WriteConcats(WriteConcat(fs, Head(runs)), Tail(runs))

\* keys of the discons map
DisconSeqs == {discons[i].d : i \in 1..Len(discons)}

\* paths held by the discons map
ConcatPaths == {[stream |-> discons[i].stream, d |-> discons[i].d] : i \in 1..Len(discons)}

PathOf(f) == [stream |-> f.stream, d |-> f.d]

\* width of the zero-padded numbers in file names
PadWidth == 10

DigitChars == <<"0", "1", "2", "3", "4", "5", "6", "7", "8", "9">>

\* decimal digits of n, as format!("{}", n) writes them
RECURSIVE Digits(_)
Digits(n) ==
    IF n < 10 THEN <<DigitChars[n + 1]>>
    ELSE Digits(n \div 10) \o <<DigitChars[(n % 10) + 1]>>

\* the number a sequence of decimal digits writes
RECURSIVE Decimal(_)
Decimal(ds) ==
    IF ds = <<>> THEN 0
    ELSE 10 * Decimal(SubSeq(ds, 1, Len(ds) - 1))
           + (CHOOSE v \in 0..9 : DigitChars[v + 1] = ds[Len(ds)])

\* format!("{:010}", n): zeros on the left up to the width, never cut
ZeroPad(n, w) ==
    LET ds == Digits(n)
    IN IF Len(ds) >= w THEN ds ELSE [i \in 1..(w - Len(ds)) |-> "0"] \o ds

OutputPathPlain(d) == <<"video", ".mp4">>

\* output path of remux, as the pieces of its file name: "video.mp4" for a
\* single discontinuity, else "video_<discon_seq>.mp4"
OutputPath(d) ==
    IF Cardinality(DisconSeqs) = 1 THEN <<"video", ".mp4">>
    ELSE <<"video", "_">> \o ZeroPad(d, PadWidth) \o <<".mp4">>

MuxInputsAll(d) == [i \in 1..Len(discons) |-> PathOf(discons[i])]

\* concatted_streams of one discontinuity: the "-i" arguments of ffmpeg
MuxInputs(d) ==
    LET of_d == SelectSeq(discons, LAMBDA r : r.d = d)
    IN [i \in 1..Len(of_d) |-> PathOf(of_d[i])]

\* the "-map" arguments of ffmpeg: one per input, by index
MuxMaps(d) == [i \in 1..Len(MuxInputs(d)) |-> i - 1]

\* the ffmpeg invocation of mux_streams for one discontinuity
MuxCommand(d) ==
    [output |-> OutputPath(d), inputs |-> MuxInputs(d), maps |-> MuxMaps(d)]

\* end of the writer loop: "Remux if necessary"
StartRemux ==
    /\ exit_status = -1
    /\ dpc = "capture"
    /\ wpc = "done"
    /\ dpc' = IF no_remux THEN "join" ELSE "concat"
    /\ UNCHANGED <<joined, exit_status, sessionVars, stopperVars, fetcherVars,
                   poolVars, writerVars, remuxVars>>

\* concat_streams returns Ok
ConcatOk ==
    /\ exit_status = -1
    /\ dpc = "concat"
    /\ \E order \in StreamOrders :
         LET runs == ConcatStreams(DownloadedPaths, order)
         IN /\ discons' = runs
            /\ concat_files' = WriteConcats(concat_files, runs)
    /\ dpc' = "mux"
    /\ UNCHANGED <<muxed, outputs, remux_res, joined, exit_status, sessionVars,
                   stopperVars, fetcherVars, poolVars, writerVars>>

\* concat_segments fails for the (j+1)-th run: concat_streams, remux and
\* download return Err, the files of the first j runs stay
ConcatFail ==
    /\ exit_status = -1
    /\ dpc = "concat"
    /\ \E order \in StreamOrders :
         LET runs == ConcatStreams(DownloadedPaths, order)
         IN \E j \in 0..(Len(runs) - 1) :
              concat_files' = WriteConcats(concat_files, SubSeq(runs, 1, j))
    /\ remux_res' = "concat_err"
    /\ dpc' = "err"
    /\ UNCHANGED <<discons, muxed, outputs, joined, exit_status, sessionVars,
                   stopperVars, fetcherVars, poolVars, writerVars>>

MuxOkRemoving(d) ==
    /\ exit_status = -1
    /\ dpc = "mux"
    /\ d \in DisconSeqs \ muxed
    /\ muxed' = muxed \cup {d}
    /\ outputs' = outputs \cup {MuxCommand(d)}
    /\ concat_files' = {f \in concat_files : f.d # d}
    /\ UNCHANGED <<discons, remux_res, mainVars, sessionVars,
                   stopperVars, fetcherVars, poolVars, writerVars>>

\* mux_streams for one discontinuity: ffmpeg exits with success
MuxOk(d) ==
    /\ exit_status = -1
    /\ dpc = "mux"
    /\ d \in DisconSeqs \ muxed
    /\ muxed' = muxed \cup {d}
    /\ outputs' = outputs \cup {MuxCommand(d)}
    /\ UNCHANGED <<concat_files, discons, remux_res, mainVars, sessionVars,
                   stopperVars, fetcherVars, poolVars, writerVars>>

\* mux_streams fails: remux returns at once, before the removal loop
MuxFail(d) ==
    /\ exit_status = -1
    /\ dpc = "mux"
    /\ d \in DisconSeqs \ muxed
    /\ remux_res' = "mux_err"
    /\ dpc' = "err"
    /\ UNCHANGED <<concat_files, discons, muxed, outputs, joined, exit_status,
                   sessionVars, stopperVars, fetcherVars, poolVars, writerVars>>

\* "Delete original concatenated files", after every discontinuity is muxed
RemoveConcats ==
    /\ exit_status = -1
    /\ dpc = "mux"
    /\ muxed = DisconSeqs
    /\ concat_files' = {f \in concat_files : PathOf(f) \notin ConcatPaths}
    /\ remux_res' = "ok"
    /\ dpc' = "join"
    /\ UNCHANGED <<discons, muxed, outputs, joined, exit_status, sessionVars,
                   stopperVars, fetcherVars, poolVars, writerVars>>

\* remove_file fails on one of the concatenated files: those removed before
\* it are gone, remux and download return Err
RemoveConcatsFail ==
    /\ exit_status = -1
    /\ dpc = "mux"
    /\ muxed = DisconSeqs
    /\ \E kept \in SUBSET concat_files :
         /\ \E f \in kept : PathOf(f) \in ConcatPaths
         /\ concat_files' = kept
    /\ remux_res' = "remove_err"
    /\ dpc' = "err"
    /\ UNCHANGED <<discons, muxed, outputs, joined, exit_status, sessionVars,
                   stopperVars, fetcherVars, poolVars, writerVars>>

Remux ==
    \/ StartRemux
    \/ ConcatOk
    \/ ConcatFail
    \/ \E d \in DisconSeqs : MuxOk(d)
    \/ \E d \in DisconSeqs : MuxFail(d)
    \/ RemoveConcats
    \/ RemoveConcatsFail

RemuxInit ==
    /\ concat_files = {}
    /\ discons = <<>>
    /\ muxed = {}
    /\ outputs = {}
    /\ remux_res = "none"

\* ------------------------------------------------- join handles and main
HandleIgnored(t) == FALSE

\* result of awaiting one fetcher handle
HandleFailed(t) == ppc[t] = "failed"

\* "Check playlist fetcher task join handles": a handle is awaited once its
\* task has returned; the first Err is returned, Ok after the last handle
JoinHandle(t) ==
    /\ exit_status = -1
    /\ dpc = "join"
    /\ t \notin joined
    /\ ppc[t] \in Terminal
    /\ IF HandleFailed(t)
       THEN /\ dpc' = "err"
            /\ UNCHANGED joined
       ELSE /\ joined' = joined \cup {t}
            /\ dpc' = IF joined' = streams THEN "ok" ELSE "join"
    /\ UNCHANGED <<exit_status, sessionVars, stopperVars, fetcherVars, poolVars,
                   writerVars, remuxVars>>

\* main: exit(1) when run returns Err, status 0 otherwise
MainExit ==
    /\ exit_status = -1
    /\ dpc \in {"ok", "err"}
    /\ exit_status' = IF dpc = "err" THEN 1 ELSE 0
    /\ UNCHANGED <<dpc, joined, sessionVars, stopperVars, fetcherVars, poolVars,
                   writerVars, remuxVars>>

MainInit ==
    /\ dpc = "capture"
    /\ joined = {}
    /\ exit_status = -1

\* ---------------------------------------------------------- specification
Construction ==
    /\ max_concurrent_downloads \in 1..MaxConcurrent
    /\ call = <<>>
    /\ result = <<>>
    /\ CacheInit
    /\ StopperInit
    /\ FetcherInit
    /\ PoolInit
    /\ WriterInit
    /\ RemuxInit
    /\ MainInit

\* a session over every stream, in which the servers publish at most
\* MaxPublished segments, in playlists that grow from sequence 0 without
\* discontinuities
Init ==
    /\ streams = Streams
    /\ no_remux = FALSE
    /\ sliding = FALSE
    /\ discontinuities = FALSE
    /\ quota = MaxPublished
    /\ Construction

\* a session started on a media playlist: the main stream alone, in
\* playlists that grow from sequence 0 and carry discontinuities
InitMain ==
    /\ streams = {"main"}
    /\ no_remux \in BOOLEAN
    /\ sliding = FALSE
    /\ discontinuities = TRUE
    /\ quota = MaxPublished
    /\ Construction

\* capture: the interrupt task, the fetchers, the pool and the writer loop
Capture ==
    \/ StopSetFlag
    \/ StopNotify
    \/ ForceStop
    \/ \E t \in streams : Fetcher(t)
    \/ Pool
    \/ Writer

Next == Capture

Spec == Init /\ [][Next]_vars

\* the whole of download() and main, on a session over the main stream
NextMain ==
    \/ Capture
    \/ Remux
    \/ \E t \in streams : JoinHandle(t)
    \/ MainExit

SpecMain == InitMain /\ [][NextMain]_vars

\* the fetcher of the main stream alone, nothing receiving: the channel then
\* holds every tuple sent so far. The playlists slide and carry
\* discontinuities.
InitFetch ==
    /\ streams = {"main"}
    /\ no_remux = FALSE
    /\ sliding = TRUE
    /\ discontinuities = TRUE
    /\ quota = MaxPublished + 1
    /\ Construction

NextFetch == \E t \in streams : Fetcher(t)

SpecFetch == InitFetch /\ [][NextFetch]_vars

\* the fetcher of the main stream alone, polling a playlist that grows from
\* media sequence 0 and carries discontinuities; the playlist of its latest
\* answered request is kept in call
InitPoll ==
    /\ streams = {"main"}
    /\ no_remux = FALSE
    /\ sliding = FALSE
    /\ discontinuities = TRUE
    /\ quota = MaxPublished + 1
    /\ max_concurrent_downloads = MaxConcurrent
    /\ Construction

FetchAnswered(t) ==
    /\ ppc[t] = "polling"
    /\ \E p \in Offered(t) : FetchPlaylistOf(t, p) /\ call' = <<p>>

NextPoll ==
    \E t \in streams :
        \/ FetchAnswered(t)
        \/ FetchPlaylistFail(t)
        \/ SegmentFail(t)
        \/ SleepElapsed(t)
        \/ CheckStopped(t)

SpecPoll == InitPoll /\ [][NextPoll]_vars

\* capture of a session in which the servers publish less, under the
\* scheduling the runtime gives: a request sent gets its answer, a sleep
\* ends, a task that can run does run
InitLive ==
    /\ streams = Streams
    /\ no_remux = FALSE
    /\ sliding = FALSE
    /\ discontinuities = FALSE
    /\ quota = MaxPublished - 1
    /\ Construction

Answered(t) == FetchPlaylist(t) \/ FetchPlaylistFail(t) \/ SegmentFail(t)
Completed == \E it \in inflight : \E res \in {"ok", "err"} : FetchDone(it, res)
Saved == SaveSegment \/ \E created \in BOOLEAN : SaveSegmentFail(created)

Fairness ==
    /\ WF_vars(StopNotify)
    /\ \A t \in Streams : WF_vars(Answered(t))
    /\ \A t \in Streams : WF_vars(SleepElapsed(t))
    /\ \A t \in Streams : WF_vars(CheckStopped(t))
    /\ WF_vars(StartFetch)
    /\ WF_vars(Completed)
    /\ WF_vars(PoolEnd)
    /\ WF_vars(WriterCheck)
    /\ WF_vars(Saved)

SpecLive == InitLive /\ [][Next]_vars /\ Fairness

\* a session over every stream in which nobody interrupts and nothing fails:
\* every request is answered, every fetch, save, concat, mux and removal
\* succeeds; the playlists carry discontinuities
InitClean ==
    /\ streams = Streams
    /\ no_remux = FALSE
    /\ sliding = FALSE
    /\ discontinuities = TRUE
    /\ quota = MaxPublished
    /\ Construction

\* the steps of the pool and the writer loop, up to the call of remux
CleanCapture ==
    \/ StartFetch
    \/ \E it \in inflight : FetchDone(it, "ok")
    \/ PoolEnd
    \/ WriterCheck
    \/ SaveSegment
    \/ StartRemux

NextClean ==
    \/ \E t \in streams : FetchPlaylist(t)
    \/ \E t \in streams : SleepElapsed(t)
    \/ \E t \in streams : CheckStopped(t)
    \/ CleanCapture
    \/ ConcatOk
    \/ \E d \in DisconSeqs : MuxOk(d)
    \/ RemoveConcats
    \/ \E t \in streams : JoinHandle(t)
    \/ MainExit

SpecClean == InitClean /\ [][NextClean]_vars /\ WF_vars(CleanCapture)

\* the states in which remux can be called: every fetcher has returned, the
\* pool is drained, and the writer has saved some set of segments of each
\* stream, in any order of completion
Keys == (0..MaxDisconSeq) \X (0..MaxMediaSeq)

SavedOrders ==
    {o \in UNION {[1..n -> {Item(t, k) : t \in Streams, k \in Keys}] :
                    n \in 0..(MaxPublished + 1)} :
        \A i, j \in 1..Len(o) : i # j => o[i] # o[j]}

\* the ledger of stream t after the writer saved the segments of order
RECURSIVE HeapOf(_, _)
HeapOf(order, t) ==
    IF order = <<>> THEN <<>>
    ELSE LET h == HeapOf(SubSeq(order, 1, Len(order) - 1), t)
             it == order[Len(order)]
         IN IF it.stream = t THEN HeapPush(h, it.key) ELSE h

InitRemux ==
    /\ streams = Streams
    /\ no_remux = FALSE
    /\ sliding = TRUE
    /\ discontinuities = TRUE
    /\ quota = 0
    /\ max_concurrent_downloads = MaxConcurrent
    /\ call = <<>>
    /\ result = <<>>
    /\ CacheInit
    /\ StopperInit
    /\ ppc = [t \in Streams |-> "ended"]
    /\ last_seg = [t \in Streams |-> NoKey]
    /\ PoolInit
    /\ wpc = "done"
    /\ wcur = NoItem
    /\ \E order \in SavedOrders :
         /\ files = order
         /\ ledger = [t \in Streams |-> HeapOf(order, t)]
    /\ RemuxInit
    /\ MainInit

\* remux up to its removal loop, whose failures leave any part of the
\* concatenated files behind
NextRemux ==
    \/ StartRemux
    \/ ConcatOk
    \/ ConcatFail
    \/ \E d \in DisconSeqs : MuxOk(d)
    \/ \E d \in DisconSeqs : MuxFail(d)
    \/ RemoveConcats

SpecRemux == InitRemux /\ [][NextRemux]_vars

\* a Stopper and the tasks that use it, nothing else running
InitStopper ==
    /\ streams = {"main"}
    /\ no_remux = FALSE
    /\ sliding = FALSE
    /\ discontinuities = FALSE
    /\ quota = 0
    /\ max_concurrent_downloads = MaxConcurrent
    /\ Construction

NextStopper ==
    \E u \in Users :
        \/ UserWait(u)
        \/ UserStopped(u)
        \/ UserStopSet(u)
        \/ UserStopNotify(u)

SpecStopper == InitStopper /\ [][NextStopper]_vars

\* ---------------------------------------------------- initialization caches
\* largest number of segments that reach the pool in a run of the caches
MaxFetches == 3

\* RemoteData of the EXT-X-MAP tags: a url and an optional byte range; the
\* derived Eq and Hash compare both
InitRanges == {<<>>, <<"0-9">>}
InitResources ==
    [url : {"init1"}, byte_range : InitRanges]
        \cup [url : {"init2"}, byte_range : {<<>>}]

\* bodies a server answers for an initialization resource
InitBodies == {"a", "b"}

\* position of the key k in the entries c of a cache, 0 when absent
LruIndex(c, k) ==
    IF \E n \in 1..Len(c) : c[n].key = k
    THEN CHOOSE n \in 1..Len(c) : c[n].key = k
    ELSE 0

LruRemove(c, n) == SubSeq(c, 1, n - 1) \o SubSeq(c, n + 1, Len(c))

\* LruCache::get: the value, and the entry becomes the most recently used
LruGet(c, k) ==
    LET n == LruIndex(c, k)
    IN IF n = 0
       THEN [found |-> <<>>, entries |-> c]
       ELSE [found |-> <<c[n].bytes>>, entries |-> <<c[n]>> \o LruRemove(c, n)]

\* a cache that never evicts
LruPutGrow(c, k, v, cap) == <<[key |-> k, bytes |-> v]>> \o c

\* LruCache::put in a cache of capacity cap, most recently used first: a
\* full cache drops its least recently used entry
LruPut(c, k, v, cap) ==
    LET n == LruIndex(c, k)
        e == [key |-> k, bytes |-> v]
    IN IF n # 0 THEN <<e>> \o LruRemove(c, n)
       ELSE IF Len(c) >= cap THEN <<e>> \o SubSeq(c, 1, cap - 1)
       ELSE <<e>> \o c

\* LruCache::new(max_concurrent_downloads)
LruCap == max_concurrent_downloads

Slots == DOMAIN fetches

CacheOther == <<streams, no_remux, max_concurrent_downloads, sliding,
                discontinuities, call, result, stopperVars, ppc, last_seg,
                poolVars, writerVars, remuxVars, mainVars>>

\* buffer_unordered takes the next item of the channel and polls
\* fetch_segment for it up to lru.lock(), or up to the fetch of the payload
\* when the segment has no initialization; the futures of the pool are not
\* ordered, the new one is given the first free slot
FetchSegmentStart(d) ==
    /\ fetches[d].pc = "free"
    /\ \A e \in Slots : e < d => fetches[e].pc # "free"
    /\ quota > 0
    /\ quota' = quota - 1
    /\ \E t \in streams : \E i \in {NoResource} \cup InitResources :
          fetches' = [fetches EXCEPT ![d] =
                         [pc |-> IF i = NoResource THEN "payload" ELSE "lock",
                          stream |-> t, init |-> i, init_bytes |-> <<>>,
                          how |-> "none", raced |-> "no"]]
    /\ UNCHANGED <<init_lrus, CacheOther>>

\* a miss holds the guard to the end of the block; a hit drops it at once
GuardAfterLookupFree(d, hit) == 0

GuardAfterLookup(d, hit) == IF hit THEN 0 ELSE d

\* lru.lock().await and guard.get(i).cloned()
FetchSegmentLookup(d) ==
    /\ fetches[d].pc = "lock"
    /\ LET t == fetches[d].stream
           got == LruGet(init_lrus[t].entries, fetches[d].init)
           hit == got.found # <<>>
       IN /\ init_lrus[t].owner = 0
          /\ init_lrus' = [init_lrus EXCEPT ![t] =
                              [entries |-> got.entries,
                               owner |-> GuardAfterLookup(d, hit)]]
          /\ fetches' = [fetches EXCEPT ![d] =
                            IF hit
                            THEN [@ EXCEPT !.pc = "payload",
                                           !.init_bytes = <<got.found[1]>>,
                                           !.how = "hit"]
                            ELSE [@ EXCEPT !.pc = "init"]]
    /\ UNCHANGED <<quota, CacheOther>>

\* history: the futures of the pool that need the resource which the future
\* d has just requested from the network learn how that request ended
Raced(d, res) ==
    [e \in Slots |->
        IF /\ e # d
           /\ fetches[e].pc # "free"
           /\ fetches[e].stream = fetches[d].stream
           /\ fetches[e].init = fetches[d].init
        THEN [fetches[e] EXCEPT !.raced = res]
        ELSE fetches[e]]

\* i.fetch(client) returns Ok: guard.put(i.clone(), d.clone()), the guard is
\* dropped at the end of the block
FetchSegmentInitOk(d) ==
    /\ fetches[d].pc = "init"
    /\ LET t == fetches[d].stream
       IN \E b \in InitBodies :
            /\ init_lrus' = [init_lrus EXCEPT ![t] =
                                [entries |-> LruPut(@.entries, fetches[d].init,
                                                    b, LruCap),
                                 owner |-> 0]]
            /\ fetches' = [Raced(d, "ok") EXCEPT ![d] =
                              [@ EXCEPT !.pc = "payload",
                                        !.init_bytes = <<b>>,
                                        !.how = "fetched"]]
    /\ UNCHANGED <<quota, CacheOther>>

\* i.fetch(client) returns Err: `?` returns it and drops the guard; the
\* pool yields the Err to the writer loop in the same poll
FetchSegmentInitErr(d) ==
    /\ fetches[d].pc = "init"
    /\ init_lrus' = [init_lrus EXCEPT ![fetches[d].stream] =
                        [@ EXCEPT !.owner = 0]]
    /\ fetches' = [Raced(d, "err") EXCEPT ![d] = FreeSlot]
    /\ UNCHANGED <<quota, CacheOther>>

\* segment.data.fetch and encryption.decrypt return, Ok or Err, and the pool
\* yields the result to the writer loop in the same poll
FetchSegmentPayload(d) ==
    /\ fetches[d].pc = "payload"
    /\ fetches' = [fetches EXCEPT ![d] = FreeSlot]
    /\ UNCHANGED <<quota, init_lrus, CacheOther>>

FetchSegment(d) ==
    \/ FetchSegmentLookup(d)
    \/ FetchSegmentInitOk(d)
    \/ FetchSegmentInitErr(d)
    \/ FetchSegmentPayload(d)

\* the pool of fetch_segment futures and the caches, nothing else running:
\* MaxFetches segments of every stream arrive, with any initialization
InitCache ==
    /\ streams = Streams
    /\ no_remux = FALSE
    /\ sliding = FALSE
    /\ discontinuities = FALSE
    /\ quota = MaxFetches
    /\ Construction

NextCache ==
    \E d \in Slots :
        \/ FetchSegmentStart(d)
        \/ FetchSegment(d)

\* every future of the pool is polled again when it is woken: a request
\* returns, and a future woken for the lock takes it or waits again
CacheFairness ==
    \A d \in 1..MaxConcurrent :
        WF_vars(IF d \in Slots THEN FetchSegment(d) ELSE FALSE)

SpecCache == InitCache /\ [][NextCache]_vars /\ CacheFairness

\* the same pool when as many segments arrive as it has room for
InitLock ==
    /\ streams = Streams
    /\ no_remux = FALSE
    /\ sliding = FALSE
    /\ discontinuities = FALSE
    /\ quota = MaxConcurrent
    /\ Construction

SpecLock == InitLock /\ [][NextCache]_vars /\ CacheFairness

\* ------------------------------------------------ functions run on their own
\* the program before download() is called, with one function about to run
\* on the arguments args
Parked(args) ==
    /\ streams = {"main"}
    /\ no_remux = FALSE
    /\ sliding = FALSE
    /\ discontinuities = FALSE
    /\ quota = 0
    /\ max_concurrent_downloads = MaxConcurrent
    /\ CacheInit
    /\ StopperInit
    /\ FetcherInit
    /\ PoolInit
    /\ WriterInit
    /\ RemuxInit
    /\ MainInit
    /\ call = <<args>>
    /\ result = <<>>

\* the function returns r
Returns(r) ==
    /\ call # <<>>
    /\ result = <<>>
    /\ result' = <<r>>
    /\ UNCHANGED <<streams, no_remux, max_concurrent_downloads, sliding,
                   discontinuities, call, cacheVars, stopperVars, fetcherVars,
                   poolVars, writerVars, remuxVars, mainVars>>

\* Stream: Main, or Video, Audio, Subtitle with a name and an optional
\* language; lang is <<>> for None and <<l>> for Some(l)
TrackNames == {<<"x">>, <<"y">>, <<"x", "_", "y">>}

TrackLangs == {<<>>, <<"en">>, <<"fr">>}

MainStream == [variant |-> "Main", name |-> <<>>, lang |-> <<>>]

StreamValues ==
    {MainStream} \cup [variant : {"Video", "Audio", "Subtitle"},
                       name : TrackNames, lang : TrackLangs]

\* derived PartialEq of Stream: same variant and same fields
StreamEq(a, b) == a.variant = b.variant /\ a.name = b.name /\ a.lang = b.lang

\* impl Display for Stream, as the characters written
StreamDisplay(st) ==
    CASE st.variant = "Main" -> <<"m", "a", "i", "n">>
      [] st.variant = "Video" -> <<"v", "i", "d", "e", "o", "_">> \o st.name
      [] st.variant = "Audio" -> <<"a", "u", "d", "i", "o", "_">> \o st.name
      [] st.variant = "Subtitle" -> <<"s", "u", "b", "t", "i", "t", "l", "e", "_">> \o st.name

\* Segment::id of a Sequence segment: format!("d{:010}s{:010}", d, s)
SegmentId(k) ==
    <<"d">> \o ZeroPad(k[1], PadWidth) \o <<"s">> \o ZeroPad(k[2], PadWidth)

MediaFormats == {"MpegTs", "FMp4", "Unknown"}

\* MediaFormat::extension
Extension(fmt) ==
    CASE fmt = "MpegTs" -> <<"t", "s">>
      [] fmt = "FMp4" -> <<"m", "p", "4">>
      [] OTHER -> <<"t", "s">>

\* file name of save_segment: format!("segment_{}_{}.{}", stream, id, ext)
SegmentFileName(st, k, fmt) ==
    <<"s", "e", "g", "m", "e", "n", "t", "_">> \o StreamDisplay(st) \o <<"_">> \o SegmentId(k)
        \o <<".">> \o Extension(fmt)

\* two segments saved by save_segment, each with its stream, its key and
\* the format detected for it
SavedSegments == [stream : StreamValues, key : Keys, format : MediaFormats]

InitPaths == \E a, b \in SavedSegments : Parked(<<a, b>>)

SaveBoth ==
    /\ call # <<>>
    /\ Returns(<<SegmentFileName(call[1][1].stream, call[1][1].key, call[1][1].format),
                 SegmentFileName(call[1][2].stream, call[1][2].key, call[1][2].format)>>)

SpecPaths == InitPaths /\ [][SaveBoth]_vars

\* the tuples a fetcher sends, through fetch_segment and save_segment
SegmentUrls == {"seg1", "seg2"}

\* Segment::Sequence as m3u8_fetcher builds it, format Unknown; the record
\* of Segment::Initialization has the same fields, those it lacks set to -1
SegmentSequence(u, br, k) ==
    [kind |-> "Sequence", url |-> u, byte_range |-> br,
     discon_seq |-> k[1], seq |-> k[2], format |-> "Unknown"]

SegmentInitialization(u, br) ==
    [kind |-> "Initialization", url |-> u, byte_range |-> br,
     discon_seq |-> -1, seq |-> -1, format |-> "Unknown"]

SentSegments ==
    {SegmentSequence(u, br, k) : u \in SegmentUrls, br \in InitRanges, k \in Keys}
        \cup {SegmentInitialization(u, br) : u \in SegmentUrls, br \in InitRanges}

AudioStream == [variant |-> "Audio", name |-> <<"x">>, lang |-> <<>>]

SentTuples == [stream : {MainStream, AudioStream}, segment : SentSegments]

\* the url of the response, after redirections
FinalUrls(u) == {u, "cdn"}

\* Segment::id
SegmentIdOf(seg) ==
    IF seg.kind = "Initialization" THEN <<"i", "n", "i", "t">>
    ELSE SegmentId(<<seg.discon_seq, seg.seq>>)

\* a fetch_segment that keeps the url it was redirected to
FetchSegmentRedirected(sent, ok, final_url) ==
    IF ok
    THEN [res |-> "Ok", stream |-> sent.stream,
          segment |-> [sent.segment EXCEPT !.url = final_url], path |-> <<>>]
    ELSE [res |-> "Err", stream |-> sent.stream, segment |-> sent.segment,
          path |-> <<>>]

\* fetch_segment on the tuple sent: Err of a request, or Ok((stream,
\* segment, bytes)); the final url is logged only
FetchSegmentResult(sent, ok, final_url) ==
    [res |-> IF ok THEN "Ok" ELSE "Err", stream |-> sent.stream,
     segment |-> sent.segment, path |-> <<>>]

\* save_segment on the Ok of fetch_segment: detect is the format of the
\* probe or "Err"; written tells whether create_dir_all, File::create and
\* write_all all return Ok. The entry is pushed after the write.
SaveSegmentResult(id_data, detect, written) ==
    IF detect = "Err"
    THEN [res |-> "Err", stream |-> id_data.stream, segment |-> id_data.segment,
          path |-> <<>>, pushed |-> FALSE]
    ELSE LET seg == [id_data.segment EXCEPT !.format = detect]
         IN [res |-> IF written THEN "Ok" ELSE "Err",
             stream |-> id_data.stream, segment |-> seg,
             path |-> <<"s", "e", "g", "m", "e", "n", "t", "_">>
                         \o StreamDisplay(id_data.stream) \o <<"_">>
                         \o SegmentIdOf(seg) \o <<".">> \o Extension(detect),
             pushed |-> written]

FrameOther == <<streams, no_remux, max_concurrent_downloads, sliding,
                discontinuities, call, cacheVars, stopperVars, fetcherVars,
                poolVars, writerVars, remuxVars, mainVars>>

\* the writer loop saves a completion before it polls the pool again
SavePending ==
    /\ result # <<>>
    /\ result[Len(result)].step = "fetch"
    /\ result[Len(result)].res = "Ok"

\* the fetch_segment of the n-th tuple completes, in any order
FetchSegmentReturns(n) ==
    /\ call # <<>>
    /\ n \in 1..Len(call[1])
    /\ \A j \in 1..Len(result) : result[j].n # n
    /\ ~SavePending
    /\ \E ok \in BOOLEAN : \E final_url \in FinalUrls(call[1][n].segment.url) :
          LET r == FetchSegmentResult(call[1][n], ok, final_url)
          IN result' = Append(result,
                 [n |-> n, step |-> "fetch", res |-> r.res, stream |-> r.stream,
                  segment |-> r.segment, path |-> <<>>, pushed |-> FALSE])
    /\ UNCHANGED FrameOther

\* save_segment of the completion just taken
SaveSegmentReturns ==
    /\ SavePending
    /\ \E detect \in MediaFormats \cup {"Err"} : \E written \in BOOLEAN :
          LET last == result[Len(result)]
              r == SaveSegmentResult(last, detect, written)
          IN result' = Append(result,
                 [n |-> last.n, step |-> "save", res |-> r.res,
                  stream |-> r.stream, segment |-> r.segment, path |-> r.path,
                  pushed |-> r.pushed])
    /\ UNCHANGED FrameOther

\* two tuples sent by the fetchers
InitFrame == \E a, b \in SentTuples : Parked(<<a, b>>)

NextFrame ==
    \/ \E n \in 1..2 : FetchSegmentReturns(n)
    \/ SaveSegmentReturns

SpecFrame == InitFrame /\ [][NextFrame]_vars


\* u64::from_str of a bandwidth attribute: an optional "+", then one or
\* more decimal digits and nothing else; <<>> for Err, <<n>> for Ok(n). The
\* strings of the model are too short to overflow a u64.
ParseU64(str) ==
    LET digits == IF str # <<>> /\ str[1] = "+" THEN Tail(str) ELSE str
    IN IF digits = <<>> \/ \E i \in 1..Len(digits) :
                             \A v \in 1..10 : DigitChars[v] # digits[i]
       THEN <<>>
       ELSE <<Decimal(digits)>>

\* filter_map(|v| Some((v.bandwidth.parse::<u64>().ok()?, v)))
RECURSIVE FilterParsed(_)
FilterParsed(vs) ==
    IF vs = <<>> THEN <<>>
    ELSE LET b == ParseU64(Head(vs).bandwidth)
         IN (IF b = <<>> THEN <<>> ELSE <<[key |-> b[1], variant |-> Head(vs)]>>)
               \o FilterParsed(Tail(vs))

KeepsSmaller(x, y) == x.key < y.key

\* the comparison of Iterator::max_by_key: the element held so far is kept
\* only when its key is greater than the next one's
KeepsHeld(x, y) == x.key > y.key

\* max_by_key(|(x, _)| *x) as the fold over the iterator, held = the
\* element held so far
RECURSIVE MaxByKey(_, _)
MaxByKey(held, rest) ==
    IF rest = <<>> THEN held
    ELSE MaxByKey(IF KeepsHeld(held, Head(rest)) THEN held ELSE Head(rest), Tail(rest))

\* "Pick highest bitrate stream" and "Add main stream" of Livestream::new,
\* for the variants of a master playlist; every variant URI can be made
\* absolute
ChooseVariant(vs) ==
    LET parsed == FilterParsed(vs)
    IN IF parsed = <<>> THEN <<"Err", "No streams found">>
       ELSE <<"Ok", MaxByKey(Head(parsed), Tail(parsed)).variant.uri>>

BandwidthStrings ==
    {<<"5">>, <<"0", "5">>, <<"2", "0">>, <<"+", "9">>, <<>>, <<"9", "x">>, <<"-", "5">>}

VariantUris == <<"a.m3u8", "b.m3u8", "c.m3u8">>

\* the variants of a master playlist, each with a URI of its own
VariantLists ==
    UNION {{[i \in 1..n |-> [bandwidth |-> b[i], uri |-> VariantUris[i]]] :
                b \in [1..n -> BandwidthStrings]} : n \in 0..Len(VariantUris)}

InitVariant == \E vs \in VariantLists : Parked(vs)

PickVariant == call # <<>> /\ Returns(ChooseVariant(call[1]))

SpecVariant == InitVariant /\ [][PickVariant]_vars

\* a u64 as its four 16-bit limbs, most significant first
Limbs == {0, 1, 255, 256, 65535}

SeqNumbers == [1..4 -> Limbs]

\* u64::to_be_bytes: eight bytes, most significant first
ToBeBytes(n) == [i \in 1..8 |-> IF i % 2 = 1 THEN n[(i + 1) \div 2] \div 256
                                              ELSE n[i \div 2] % 256]

\* size of a reference in bytes, by the target the program is built for
PointerBytes == {4, 8}

\* "Compute IV from segment sequence" in Encryption::decrypt, where seq is
\* the &u64 bound by the match on &self: size_of_val(&seq) is the size of
\* that reference, so the destination is iv[(16 - ptr)..] on a target with
\* ptr-byte pointers, and copy_from_slice panics unless it has the 8 bytes
\* of the source
DeriveIv(n, ptr) ==
    LET start == 16 - ptr
        src == ToBeBytes(n)
    IN IF 16 - start # Len(src) THEN <<"Panic">>
       ELSE <<"Ok", [i \in 1..16 |-> IF i <= start THEN 0 ELSE src[i - start]]>>

InitIv == \E n \in SeqNumbers : \E ptr \in PointerBytes : Parked(<<n, ptr>>)

ComputeIv == call # <<>> /\ Returns(DeriveIv(call[1][1], call[1][2]))

SpecIv == InitIv /\ [][ComputeIv]_vars

\* byte ranges of a playlist: length and optional offset (<<>> for None,
\* <<o>> for Some(o)); the values stay far below the width of a u64
RangeLengths == {0, 1, 2, 9, 10, 50, 100, 1000}

RangeOffsets == {0, 1, 9, 10, 100, 999}

ByteRanges ==
    [length : RangeLengths, offset : {<<>>} \cup {<<o>> : o \in RangeOffsets}]

\* u64::saturating_sub
SaturatingSub(a, b) == IF a >= b THEN a - b ELSE 0

\* RemoteData::byte_range_string for the Option<HashableByteRange> br:
\* <<>> for None, else <<the text of the Range header>>
ByteRangeString(br) ==
    IF br = <<>> THEN <<>>
    ELSE LET start == IF br[1].offset = <<>> THEN 0 ELSE br[1].offset[1]
             end == start + SaturatingSub(br[1].length, 1)
         IN <<<<"b", "y", "t", "e", "s", "=">> \o Digits(start) \o <<"-">> \o Digits(end)>>

InitRange == \E br \in {<<>>} \cup {<<b>> : b \in ByteRanges} : Parked(br)

\* RemoteData::fetch: "Add byte range headers if needed"
AddRangeHeader == call # <<>> /\ Returns(ByteRangeString(call[1]))

SpecRange == InitRange /\ [][AddRangeHeader]_vars

\* a line of a cookie file as its characters; a run of characters that
\* holds no tab, blank, dot or '#' is written as one element, and "0xFF"
\* stands for a byte that is not valid UTF-8
GoodFields == <<"TRUE", "\t", "/", "\t", "FALSE", "\t", "0", "\t", "sid", "\t", "1">>

CookieLines ==
    {<<".", "a", ".", "com", "\t">> \o GoodFields,
     <<"b", ".", "org", "\t">> \o GoodFields,
     <<"\t">> \o GoodFields,
     <<"a", " ", "b", "\t">> \o GoodFields,
     <<"a", ".", "com", "\t">> \o GoodFields \o <<"\t", "extra">>,
     GoodFields,
     <<>>,
     <<" ", "\t">>,
     <<"#", " ", "Netscape">>,
     <<" ", "#", "x">>,
     <<"a", ".", "com", "\t", "0xFF">>}

CookieFiles == UNION {[1..n -> CookieLines] : n \in 0..MaxLines}

\* BufRead::lines yields Err for a line that is not valid UTF-8
ValidUtf8(line) == \A i \in 1..Len(line) : line[i] # "0xFF"

IsWhitespace(c) == c \in {" ", "\t"}

\* str::trim_start, then str::trim_end
RECURSIVE TrimStart(_)
TrimStart(line) ==
    IF line # <<>> /\ IsWhitespace(Head(line)) THEN TrimStart(Tail(line)) ELSE line

RECURSIVE TrimEnd(_)
TrimEnd(line) ==
    IF line # <<>> /\ IsWhitespace(line[Len(line)])
    THEN TrimEnd(SubSeq(line, 1, Len(line) - 1))
    ELSE line

Trim(line) == TrimEnd(TrimStart(line))

\* "Skip empty lines and comments"
Skipped(line) == Trim(line) = <<>> \/ Head(Trim(line)) = "#"

\* line.split('\t'): the fields between the tabs, empty ones included
RECURSIVE SplitTabs(_, _)
SplitTabs(line, field) ==
    IF line = <<>> THEN <<field>>
    ELSE IF Head(line) = "\t" THEN <<field>> \o SplitTabs(Tail(line), <<>>)
    ELSE SplitTabs(Tail(line), Append(field, Head(line)))

\* domain.trim_start_matches('.')
RECURSIVE TrimStartDots(_)
TrimStartDots(d) ==
    IF d # <<>> /\ Head(d) = "." THEN TrimStartDots(Tail(d)) ELSE d

\* Url::parse of "https://" followed by the host: an empty host and a host
\* with a blank are rejected
UrlParses(host) == host # <<>> /\ \A i \in 1..Len(host) : host[i] # " "

\* parse_cookie: <<"Err">>, or <<"Ok", url, cookie>>
ParseCookie(line) ==
    LET fields == SplitTabs(line, <<>>)
    IN IF Len(fields) # 7 THEN <<"Err">>
       ELSE LET host == TrimStartDots(fields[1])
            IN IF ~UrlParses(host) THEN <<"Err">>
               ELSE <<"Ok", <<"https://">> \o host, fields[6] \o <<"=">> \o fields[7]>>

\* the loop of CookieJar::parse_from_file over the lines from index i on:
\* jar = the (url, cookie) pairs given to add_cookie_str, warned = the
\* lines logged as warnings
RECURSIVE ParseLines(_, _, _, _)
ParseLines(file, i, jar, warned) ==
    IF i > Len(file) THEN [res |-> "Ok", jar |-> jar, warned |-> warned]
    ELSE IF ~ValidUtf8(file[i]) THEN [res |-> "Err", jar |-> jar, warned |-> warned]
    ELSE IF Skipped(file[i]) THEN ParseLines(file, i + 1, jar, warned)
    ELSE LET c == ParseCookie(file[i])
         IN IF c[1] = "Err"
            THEN ParseLines(file, i + 1, jar, Append(warned, i))
            ELSE ParseLines(file, i + 1,
                            Append(jar, [line |-> i, url |-> c[2], cookie |-> c[3]]),
                            warned)

\* CookieJar::parse_from_file on a file that can be opened and read
ParseFromFile(file) == ParseLines(file, 1, <<>>, <<>>)

InitCookies == \E file \in CookieFiles : Parked(file)

ParseCookieFile == call # <<>> /\ Returns(ParseFromFile(call[1]))

SpecCookies == InitCookies /\ [][ParseCookieFile]_vars

\* the keys of all segments of playlist p, in playlist order
PlaylistKeys(p) ==
    LET RECURSIVE Walk(_, _)
        Walk(i, off) ==
            IF i > Len(p.segments) THEN <<>>
            ELSE <<KeyAt(p, i, off)>> \o Walk(i + 1, OffsetAt(p, i, off))
    IN Walk(1, 0)

\* ------------------------------------------------- one poll cycle, keys only
\* the values last_seg may hold when a playlist is fetched: None, or the key
\* of a segment of some earlier playlist
SeenKeys ==
    {NoKey} \cup ((0..(MaxDisconSeq + MaxSegs)) \X (0..(MaxMediaSeq + MaxSegs)))

InitScan ==
    \E p \in Playlists : \E last \in SeenKeys :
        Parked([playlist |-> p, last_seg |-> last])

\* the loop over the segments, then the test of end_list
RunScan ==
    /\ call # <<>>
    /\ Returns([cycle |-> Cycle(call[1].playlist, call[1].last_seg),
                then |-> AfterLoop(call[1].playlist)])

SpecScan == InitScan /\ [][RunScan]_vars

\* largest EXT-X-TARGETDURATION of a fetched playlist, in seconds
MaxTarget == 2

\* instants and durations are in milliseconds
Max(a, b) == IF a >= b THEN a ELSE b

\* a fetcher that always waits the whole target duration
WaitDurationWhole(target_duration, found_new_segments) == target_duration * 1000

\* wait_duration: Duration::from_secs_f32 of the target duration, or of the
\* target duration / 2.0
WaitDuration(target_duration, found_new_segments) ==
    IF found_new_segments THEN target_duration * 1000
    ELSE (target_duration * 1000) \div 2

\* one iteration of the loop of m3u8_fetcher that begins at the instant now:
\* the request and the loop over the segments take `took`; stop() sets the
\* flag and notifies at the instant stop_at (-1: never). The select returns
\* on a notification that comes while it waits, else at the deadline, which
\* is at once when the deadline has passed.
Iteration(p, last, target_duration, now, took, stop_at) ==
    LET c == Cycle(p, last)
        found_new_segments == c.sent # <<>>
        entered == now + took
        deadline == now + WaitDuration(target_duration, found_new_segments)
        woken == IF stop_at >= entered /\ stop_at < deadline
                 THEN stop_at ELSE Max(entered, deadline)
    IN IF AfterLoop(p) = "ended"
       THEN [then |-> "ended", sent |-> c.sent, at |-> entered]
       ELSE [then |-> IF stop_at >= 0 /\ stop_at <= woken
                      THEN "stopped" ELSE "polling",
             sent |-> c.sent, at |-> woken]

InitWait ==
    \E p \in Playlists :
      \E last \in {NoKey} \cup {PlaylistKeys(p)[i] : i \in 1..Len(p.segments)} :
        \E target_duration \in 0..MaxTarget : \E now \in {0, 250} :
            \E took \in {0, 600, 2500} : \E stop_at \in {-1, 300, 1200} :
                Parked([playlist |-> p, last_seg |-> last,
                        target_duration |-> target_duration, now |-> now,
                        took |-> took, stop_at |-> stop_at])

RunWait ==
    /\ call # <<>>
    /\ Returns(Iteration(call[1].playlist, call[1].last_seg, call[1].target_duration,
                         call[1].now, call[1].took, call[1].stop_at))

SpecWait == InitWait /\ [][RunWait]_vars

\* ------------------------------------------- one poll cycle, tags included
\* EXT-X-KEY tags of the segments (m3u8_rs::Key): method, and uri, keyformat
\* and iv as options (<<>> for None, <<x>> for Some(x))
KeyTag(m, u, kf, iv) == [method |-> m, uri |-> u, keyformat |-> kf, iv |-> iv]

KeyTags ==
    {KeyTag("NONE", <<>>, <<>>, <<>>),
     KeyTag("AES-128", <<"key1">>, <<>>, <<>>),
     KeyTag("AES-128", <<"key2">>, <<"identity">>, <<"0x01">>),
     KeyTag("AES-128", <<>>, <<>>, <<>>),
     KeyTag("AES-128", <<"key1">>, <<"com.apple">>, <<>>),
     KeyTag("SAMPLE-AES", <<"key1">>, <<>>, <<>>),
     KeyTag("AES-256", <<"key1">>, <<>>, <<>>)}

\* URIs of EXT-X-MAP tags
MapUris == {"init1", "init2"}

\* m3u8_rs::MediaSegment: the discontinuity flag, the key tag and the map tag
\* that precede the segment's URI; the tagged playlists have no
\* EXT-X-DISCONTINUITY tag
MediaSegments ==
    [discontinuity : {FALSE},
     key : {<<>>} \cup {<<k>> : k \in KeyTags},
     map : {<<>>} \cup {<<m>> : m \in MapUris}]

TaggedPlaylists ==
    [media_sequence : 0..MaxMediaSeq,
     discontinuity_sequence : 0..MaxDisconSeq,
     segments : UNION {[1..m -> MediaSegments] : m \in 0..MaxSegs}]

\* the playlist with the discontinuity flags of its segments alone
Flags(p) ==
    [media_sequence |-> p.media_sequence,
     discontinuity_sequence |-> p.discontinuity_sequence,
     segments |-> [i \in 1..Len(p.segments) |-> p.segments[i].discontinuity]]

\* Encryption::None
EncNone == [kind |-> "None", uri |-> "", iv |-> <<>>, seq |-> 0]

\* keyformat not looked at
EncryptionNewAnyFormat(k, seq) ==
    IF k.method = "NONE" THEN <<"Ok", EncNone>>
    ELSE IF k.method = "AES-128"
    THEN IF k.uri = <<>> THEN <<"Err", "No URI found for AES-128 key">>
         ELSE <<"Ok", [kind |-> "Aes128", uri |-> k.uri[1], iv |-> k.iv,
                       seq |-> seq]>>
    ELSE IF k.method = "SAMPLE-AES"
    THEN <<"Err", "Unimplemented encryption method">>
    ELSE <<"Err", "Invalid encryption method">>

\* Encryption::new(m3u8_key, base_url, seq)
EncryptionNew(k, seq) ==
    IF k.method = "NONE" THEN <<"Ok", EncNone>>
    ELSE IF k.method = "AES-128"
    THEN IF k.uri = <<>> THEN <<"Err", "No URI found for AES-128 key">>
         ELSE IF k.keyformat # <<>> /\ k.keyformat[1] # "identity"
         THEN <<"Err", "Invalid keyformat">>
         ELSE <<"Ok", [kind |-> "Aes128", uri |-> k.uri[1], iv |-> k.iv,
                       seq |-> seq]>>
    ELSE IF k.method = "SAMPLE-AES"
    THEN <<"Err", "Unimplemented encryption method">>
    ELSE <<"Err", "Invalid encryption method">>

\* tuples sent on the channel: Segment::Initialization with the URL of the
\* map, Segment::Sequence with discon_seq and seq, each with the encryption
InitializationItem(m, e) ==
    [kind |-> "Initialization", init |-> <<m>>, key |-> NoKey, encryption |-> e]

SequenceItem(key, e) ==
    [kind |-> "Sequence", init |-> <<>>, key |-> key, encryption |-> e]

\* the loop over media_playlist.segments from index i on: off =
\* discon_offset, last = last_seg, enc = encryption, init = init_downloaded,
\* sent = the tuples sent so far in this cycle
RECURSIVE PollSegments(_, _, _, _, _, _, _)
PollSegments(p, i, off, last, enc, init, sent) ==
    IF i > Len(p.segments)
    THEN [result |-> "Ok", last_seg |-> last, init_downloaded |-> init,
          sent |-> sent]
    ELSE LET segment == p.segments[i]
             key == KeyAt(Flags(p), i, off)
             next == OffsetAt(Flags(p), i, off)
         IN IF AlreadyDownloaded(last, key)
            THEN PollSegments(p, i + 1, next, last, enc, init, sent)
            ELSE LET made == IF segment.key = <<>> THEN <<"Ok", enc>>
                             ELSE EncryptionNew(segment.key[1], key[2])
                     new_init == ~init /\ segment.map # <<>>
                     with_init ==
                         IF new_init
                         THEN Append(sent, InitializationItem(segment.map[1], made[2]))
                         ELSE sent
                 IN IF made[1] = "Err"
                    THEN [result |-> "Err", last_seg |-> last,
                          init_downloaded |-> init, sent |-> sent]
                    ELSE PollSegments(p, i + 1, next, key, made[2],
                                      init \/ new_init,
                                      Append(with_init, SequenceItem(key, made[2])))

\* one cycle: discon_offset = 0 and encryption = Encryption::None at its start
PollCycle(p, last, init) == PollSegments(p, 1, 0, last, EncNone, init, <<>>)

\* the values last_seg may hold when playlist p is fetched: None, or the key
\* of one of its segments
LastSeen(p) ==
    {NoKey} \cup {PlaylistKeys(Flags(p))[i] : i \in 1..Len(p.segments)}

\* init_downloaded is false, or an earlier cycle, which set last_seg, sent
\* Initialization with the URL the call holds
InitCycle ==
    \E p \in TaggedPlaylists : \E last \in LastSeen(p) :
        \E init \in {<<>>} \cup {<<m>> : m \in MapUris} :
            /\ init # <<>> => last # NoKey
            /\ Parked([playlist |-> p, last_seg |-> last, init |-> init])

RunCycle ==
    /\ call # <<>>
    /\ Returns(PollCycle(call[1].playlist, call[1].last_seg, call[1].init # <<>>))

SpecCycle == InitCycle /\ [][RunCycle]_vars

\* ------------------------------------------------ requests and responses
\* a URL: the file it names inside a directory of a host
Url(h, d, f) == [host |-> h, dir |-> d, file |-> f]

\* the URL a request is sent to, and the URL of the response: the same, or
\* another after redirects
RequestedUrl == Url("origin", "live", "index.m3u8")

EffectiveUrls == {RequestedUrl, Url("cdn", "edge", "index.m3u8")}

\* URIs inside a playlist: a file name relative to the playlist, or a URL
UriStrings == {<<"rel", "next">>, <<"abs", Url("other", "media", "next")>>}

\* utils::make_absolute_url: a string that parses as a URL is taken as it
\* is, a relative one is joined to base
MakeAbsoluteUrl(base, uri) ==
    IF uri[1] = "abs" THEN uri[2] ELSE [base EXCEPT !.file = uri[2]]

\* response bodies: a master playlist (URIs of the variant and of an
\* alternative media), a media playlist (URIs of a segment, its map and its
\* key), both longer than 16 bytes, or other bytes
Body(k, uris, len) == [kind |-> k, uris |-> uris, len |-> len]

Bodies ==
    {Body("master", <<v, a>>, 64) : v \in UriStrings, a \in UriStrings}
        \cup {Body("media", <<s, m, k>>, 64) :
                 s \in UriStrings, m \in UriStrings, k \in UriStrings}
        \cup {Body("other", <<>>, len) : len \in {0, 9, 16}}

Statuses == {200, 206, 403, 404, 503}

\* StatusCode::is_success
IsSuccess(status) == 200 <= status /\ status < 300

Responses == [status : Statuses, url : EffectiveUrls, body : Bodies]

\* what a request ends in: Ok, Err or Panic; the error; the URLs made from
\* the URIs of the body; whether the body was parsed as a playlist and
\* whether its first 16 bytes became the AES key
Outcome(o, e, urls, parsed, key) ==
    [outcome |-> o, error |-> e, urls |-> urls, parsed |-> parsed, key |-> key]

\* LivestreamDLError::NetworkRequest(resp): status code and URL of resp
NetworkRequest(resp) == [kind |-> "NetworkRequest", status |-> resp.status, url |-> resp.url]

\* LivestreamDLError::ParseM3u8(final_url), and the anyhow error made from
\* the parser's error, which names no URL
NoUrl == Url("", "", "")

OtherError(what, url) == [kind |-> what, status |-> 0, url |-> url]

\* Livestream::new: the request of the playlist the session is made from
LivestreamNew(url, resp) ==
    IF ~IsSuccess(resp.status)
    THEN Outcome("Err", NetworkRequest(resp), <<>>, FALSE, FALSE)
    ELSE IF resp.body.kind = "master"
    THEN Outcome("Ok", <<>>,
                 [i \in 1..2 |-> MakeAbsoluteUrl(url, resp.body.uris[i])], TRUE, FALSE)
    ELSE IF resp.body.kind = "media"
    THEN Outcome("Ok", <<>>, <<resp.url>>, TRUE, FALSE)
    ELSE Outcome("Err", OtherError("ParseM3u8", resp.url), <<>>, FALSE, FALSE)

\* m3u8_fetcher: the request of a poll; the URLs of the segment, of its map
\* and of its key are made from the URL of the stream
FetcherRequest(url, resp) ==
    IF resp.body.kind = "media"
    THEN Outcome("Ok", <<>>,
                 [i \in 1..3 |-> MakeAbsoluteUrl(url, resp.body.uris[i])], TRUE, FALSE)
    ELSE Outcome("Err", OtherError("parse_media_playlist", NoUrl), <<>>, FALSE, FALSE)

\* RemoteData::fetch: the request of a segment or of an initialization
RemoteDataFetch(url, resp) ==
    IF ~IsSuccess(resp.status)
    THEN Outcome("Err", NetworkRequest(resp), <<>>, FALSE, FALSE)
    ELSE Outcome("Ok", <<>>, <<resp.url>>, FALSE, FALSE)

\* Encryption::decrypt: the request of the key; key.copy_from_slice(&body[..16])
KeyRequest(url, resp) ==
    IF resp.body.len < 16
    THEN Outcome("Panic", <<>>, <<>>, FALSE, FALSE)
    ELSE Outcome("Ok", <<>>, <<>>, FALSE, TRUE)

Requesters == {"Livestream::new", "m3u8_fetcher", "RemoteData::fetch", "Encryption::decrypt"}

Handle(op, url, resp) ==
    IF op = "Livestream::new" THEN LivestreamNew(url, resp)
    ELSE IF op = "m3u8_fetcher" THEN FetcherRequest(url, resp)
    ELSE IF op = "RemoteData::fetch" THEN RemoteDataFetch(url, resp)
    ELSE KeyRequest(url, resp)

\* a request has been sent and its final response, after the retries of the
\* middleware, has arrived
InitHttp ==
    \E op \in Requesters : \E resp \in Responses :
        Parked([op |-> op, url |-> RequestedUrl, response |-> resp])

Respond == call # <<>> /\ Returns(Handle(call[1].op, call[1].url, call[1].response))

SpecHttp == InitHttp /\ [][Respond]_vars

\* ----------------------------------------------------------------- claims
\* C1: for every stream, the keys (discon_seq, seq) of the Sequence segments
\* sent on the channel, over any number of poll cycles, strictly increase in
\* lexicographic order; none is sent twice, none is <= last_seg when sent.
C1_KeysStrictlyIncrease ==
    /\ \A i, j \in 1..Len(chan) :
         (i < j /\ chan[i].stream = chan[j].stream) => KeyLT(chan[i].key, chan[j].key)
    /\ \A i \in 1..Len(chan) : KeyGE(last_seg[chan[i].stream], chan[i].key)

\* three segments of one stream were sent, over a discontinuity and from a
\* playlist that has slid, and the fetcher is between two polls
C1_Witness ==
    /\ Len(chan) >= 3
    /\ chan[1].stream = "main" /\ chan[2].stream = "main" /\ chan[3].stream = "main"
    /\ chan[1].key[1] < chan[3].key[1]
    /\ chan[3].key[2] >= MaxSegs
    /\ ppc["main"] = "waiting"

\* C2: at most max_concurrent_downloads fetch_segment operations are in
\* flight in every reachable state, all streams counted together.
C2_PoolBound == Cardinality(inflight) <= max_concurrent_downloads

\* the pool is full with a segment of one stream while a segment of another
\* stream waits in the channel
C2_Witness ==
    /\ Cardinality(inflight) = max_concurrent_downloads
    /\ chan # <<>>
    /\ \E it \in inflight : it.stream # Head(chan).stream

C4_NoEmissionAfterStop == [][sig = "done" => Len(chan') <= Len(chan)]_vars

\* C5: once the stop flag is set the writer starts no further save: a
\* completion it has received is discarded, the ledger and the segment files
\* only change by a save begun before, and the loop is left.
C5_NoSaveAfterStop ==
    [][flag =>
         /\ wpc' = "saving" => wpc = "saving"
         /\ wpc = "check" => wpc' \in {"check", "done"}
         /\ wpc # "saving" => ledger' = ledger /\ files' = files]_vars

\* a successful completion is in the writer's hands and the flag is set
C5_Witness == flag /\ wpc = "check" /\ wcur.res = "ok"

AllReturn ==
    /\ \A t \in streams : ppc[t] # "failed"
    /\ exit_status = -1

CaptureOver ==
    /\ \A t \in streams : ppc[t] \in {"ended", "stopped"}
    /\ wpc = "done"

\* C6: after stop(), as long as every network call returns, every fetcher
\* reaches a terminal success state and the writer loop exits; a fetcher that
\* has observed the flag after its sleep does not poll or sleep again.
C6_StopTerminates ==
    /\ ([]AllReturn) => (flag ~> CaptureOver)
    /\ [][\A t \in streams :
            (flag /\ ppc[t] = "checking") => ppc'[t] \in {"checking", "stopped"}]_vars

\* stop() has completed, and then a fetcher went into its sleep and the
\* writer into a save: neither was suspended in wait() when notified
C6_Witness ==
    /\ sig = "done"
    /\ \E t \in streams : ppc[t] = "waiting"
    /\ wpc = "saving"

\* C7: a failure of one segment's fetch or decryption, a key response
\* shorter than 16 bytes included, only drops that segment: the process is
\* never aborted by it.
C7_NeverAborted == exit_status # 101

\* C8: when a fetcher has failed, a global stop has been requested by the
\* time the capture is over.
C8_FailureStops ==
    ((\E t \in streams : ppc[t] = "failed") /\ wpc = "done") => flag

PollerFailed == \E t \in streams : ppc[t] = "failed"

RemuxFailed == remux_res \in {"concat_err", "mux_err", "remove_err"}

\* C9: download() returns an error exactly when a fetcher failed or remux
\* failed; after an error the process exits with status 1 only, and it exits
\* with status 0 only after download() returned Ok.
C9_ErrorIff ==
    /\ [](dpc \in {"ok", "err"} => (dpc = "err" <=> (PollerFailed \/ RemuxFailed)))
    /\ [][(dpc = "err" /\ exit_status' # exit_status) => exit_status' = 1]_vars
    /\ [](exit_status = 0 => dpc = "ok")

\* remux succeeded, a fetcher had failed: the exit status is 1
C9_Witness ==
    /\ remux_res = "ok"
    /\ PollerFailed
    /\ ledger["main"] # <<>>
    /\ exit_status = 1

Published == MaxPublished - quota

SavedKeys(t) == {files[i].key : i \in {j \in 1..Len(files) : files[j].stream = t}}

InLedger(t) == {ledger[t][i] : i \in 1..Len(ledger[t])}

AllEnded == \A t \in streams : ppc[t] = "ended"

LedgerDiscons(t) == {k[1] : k \in InLedger(t)}

\* the entries of the discons map for one pair
EntriesOf(t, d) == {i \in 1..Len(discons) : discons[i].stream = t /\ discons[i].d = d}

AllDiscons == UNION {LedgerDiscons(t) : t \in Streams}

\* streams that have a concatenated file for discontinuity d
StreamsOf(d) == {t \in Streams : d \in LedgerDiscons(t)}

DisconOf(c) == c.inputs[1].d

\* C14: the output of a mux run is named video.mp4 when the discons map has
\* exactly one discontinuity; with more than one its name is video_, the
\* discontinuity index in decimal, .mp4; two different discontinuities never
\* get the same output path.
C14_OutputNames ==
    /\ \A c \in outputs :
         IF Cardinality(DisconSeqs) = 1
         THEN c.output = <<"video", ".mp4">>
         ELSE /\ Len(c.output) > 3
              /\ SubSeq(c.output, 1, 2) = <<"video", "_">>
              /\ c.output[Len(c.output)] = ".mp4"
              /\ Decimal(SubSeq(c.output, 3, Len(c.output) - 1)) = DisconOf(c)
    /\ \A c1, c2 \in outputs : DisconOf(c1) # DisconOf(c2) => c1.output # c2.output
    /\ \A d1, d2 \in DisconSeqs : d1 # d2 => OutputPath(d1) # OutputPath(d2)

\* a session of two discontinuities, both muxed, each to a file of its own
C14_Witness ==
    /\ remux_res = "ok"
    /\ Cardinality(DisconSeqs) = 2
    /\ Cardinality({c.output : c \in outputs}) = 2

\* C15: two segments that differ in their stream (variant, name or language)
\* or in their key (discon_seq, seq) are saved under different file names.
C15_DistinctPaths ==
    (call # <<>> /\ result # <<>>) =>
        LET a == call[1][1]
            b == call[1][2]
        IN (~StreamEq(a.stream, b.stream) \/ a.key # b.key)
              => result[1][1] # result[1][2]

\* every segment of p has a key <= last
AllSeen(p, last) ==
    /\ last # NoKey
    /\ LET keys == PlaylistKeys(p)
       IN \A i \in 1..Len(keys) : KeyGE(last, keys[i])

\* C16: whenever a fetcher polls, for every playlist the server may answer
\* with: if all its keys are <= last_seg the cycle sends nothing and keeps
\* last_seg; a second cycle over the playlist just processed sends nothing
\* and keeps last_seg, and the first cycle sends no key twice.
C16_RepollIdempotent ==
    \A t \in streams :
        ppc[t] = "polling" =>
            \A p \in Offered(t) :
                LET c1 == Cycle(p, last_seg[t])
                    c2 == Cycle(p, c1.last_seg)
                IN /\ AllSeen(p, last_seg[t]) =>
                        (c1.sent = <<>> /\ c1.last_seg = last_seg[t])
                   /\ c2.sent = <<>>
                   /\ c2.last_seg = c1.last_seg
                   /\ \A i, j \in 1..Len(c1.sent) : i # j => c1.sent[i] # c1.sent[j]

\* a fetcher that has sent segments polls again and the server may answer
\* with a playlist that holds nothing new
C16_Witness ==
    /\ ppc["main"] = "polling"
    /\ last_seg["main"] # NoKey
    /\ Len(chan) >= 2
    /\ \E p \in Offered("main") :
         /\ Len(p.segments) >= 2
         /\ AllSeen(p, last_seg["main"])

\* positions of the variants whose bandwidth parses
Parseable(vs) == {i \in 1..Len(vs) : ParseU64(vs[i].bandwidth) # <<>>}

\* C17: for the variants of a master playlist, without the chooser: if no
\* bandwidth parses, Livestream::new fails; otherwise Main is the URI of a
\* variant whose bandwidth parses and is the largest of those that parse.
C17_HighestBandwidth ==
    (call # <<>> /\ result # <<>>) =>
        LET vs == call[1]
        IN IF Parseable(vs) = {}
           THEN result[1][1] = "Err"
           ELSE /\ result[1][1] = "Ok"
                /\ \E i \in Parseable(vs) :
                     /\ result[1][2] = vs[i].uri
                     /\ \A j \in Parseable(vs) :
                          ParseU64(vs[j].bandwidth)[1] <= ParseU64(vs[i].bandwidth)[1]

\* three variants, the first with the smallest bandwidth, one whose
\* bandwidth does not parse, and the largest chosen
C17_Witness ==
    /\ call # <<>>
    /\ result # <<>>
    /\ Len(call[1]) = 3
    /\ Cardinality(Parseable(call[1])) = 2
    /\ 1 \in Parseable(call[1])
    /\ result[1] = <<"Ok", "c.m3u8">>
    /\ ParseU64(call[1][1].bandwidth)[1] < ParseU64(call[1][3].bandwidth)[1]

\* C18: for every sequence number and no explicit IV, the derivation yields
\* an IV of 16 bytes whose first eight bytes are zero and whose last eight
\* bytes are the sequence number, most significant byte first.
C18_IvFromSequence ==
    (call # <<>> /\ result # <<>>) =>
        /\ result[1][1] = "Ok"
        /\ LET n == call[1][1]
               iv == result[1][2]
           IN /\ Len(iv) = 16
              /\ \A i \in 1..8 : iv[i] = 0
              /\ \A l \in 1..4 : 256 * iv[8 + 2 * l - 1] + iv[8 + 2 * l] = n[l]

\* first and last byte position that a Range header text addresses
RangeFirst(h) ==
    LET dash == CHOOSE i \in 1..Len(h) : h[i] = "-"
    IN Decimal(SubSeq(h, 7, dash - 1))

RangeLast(h) ==
    LET dash == CHOOSE i \in 1..Len(h) : h[i] = "-"
    IN Decimal(SubSeq(h, dash + 1, Len(h)))

\* C19: a resource without byte range gets no Range header; one with length
\* n and offset o (0 when absent) gets "bytes=" first "-" last, where first
\* is o and the positions first..last are exactly the n bytes of [o, o + n).
C19_RangeHeader ==
    (call # <<>> /\ result # <<>>) =>
        IF call[1] = <<>> THEN result[1] = <<>>
        ELSE LET br == call[1][1]
                 o == IF br.offset = <<>> THEN 0 ELSE br.offset[1]
             IN /\ result[1] # <<>>
                /\ SubSeq(result[1][1], 1, 6) = <<"b", "y", "t", "e", "s", "=">>
                /\ RangeFirst(result[1][1]) = o
                /\ RangeLast(result[1][1]) - RangeFirst(result[1][1]) + 1 = br.length

\* lines of a file that are neither blank nor comments
ContentLines(file) == {i \in 1..Len(file) : ~Skipped(file[i])}

\* number of tabs of a line
Tabs(line) == Cardinality({i \in 1..Len(line) : line[i] = "\t"})

\* C20: parse_from_file returns Ok whatever the lines hold; every line that
\* is neither blank nor a comment and has exactly 7 tab-separated fields
\* gives one cookie, name=value at https://<domain without leading dots>;
\* every other such line is warned about; no later line is lost.
C20_CookieLinesNeverFatal ==
    (call # <<>> /\ result # <<>>) =>
        LET file == call[1]
            r == result[1]
            seven == {i \in ContentLines(file) : Tabs(file[i]) = 6}
        IN /\ r.res = "Ok"
           /\ {r.jar[j].line : j \in 1..Len(r.jar)} = seven
           /\ {r.warned[j] : j \in 1..Len(r.warned)} = ContentLines(file) \ seven
           /\ \A j \in 1..Len(r.jar) :
                LET fields == SplitTabs(file[r.jar[j].line], <<>>)
                IN /\ r.jar[j].cookie = fields[6] \o <<"=">> \o fields[7]
                   /\ r.jar[j].url = <<"https://">> \o TrimStartDots(fields[1])

\* the most recent key tag at or before index i of playlist p, as an option
LatestKeyTag(p, i) ==
    LET tagged == {j \in 1..i : p.segments[j].key # <<>>}
    IN IF tagged = {} THEN <<>>
       ELSE p.segments[CHOOSE j \in tagged : \A k \in tagged : k <= j].key

\* the index in playlist p of the segment a Sequence tuple was made from
IndexOf(p, item) == item.key[2] - p.media_sequence + 1

\* the same key resource and the same IV attribute
SameKey(a, b) == a.kind = b.kind /\ a.uri = b.uri /\ a.iv = b.iv

\* C21: every Sequence segment a poll cycle sends carries the Encryption
\* made from the most recent key tag at or before it in the fetched playlist,
\* Encryption::None when there is no such tag; this also when the tag sits on
\* a segment the cycle skips as already downloaded.
C21_EncryptionFromLatestKeyTag ==
    (call # <<>> /\ result # <<>>) =>
        LET p == call[1].playlist
            sent == result[1].sent
        IN \A n \in 1..Len(sent) :
              sent[n].kind = "Sequence" =>
                  LET tag == LatestKeyTag(p, IndexOf(p, sent[n]))
                      made == EncryptionNew(tag[1], sent[n].key[2])
                  IN IF tag = <<>> THEN sent[n].encryption = EncNone
                     ELSE made[1] = "Ok" => SameKey(sent[n].encryption, made[2])

\* the sequence number Encryption::decrypt derives the IV from when the key
\* tag gave none: the seq held by the Encryption value
IvSequence(e) == e.seq

\* C22: every AES-128 Sequence segment whose key tag gives no IV is decrypted
\* with the IV derived from its own media sequence number, also when the key
\* tag sits on an earlier segment.
C22_IvFromOwnSequence ==
    (call # <<>> /\ result # <<>>) =>
        LET sent == result[1].sent
        IN \A n \in 1..Len(sent) :
              (/\ sent[n].kind = "Sequence"
               /\ sent[n].encryption.kind = "Aes128"
               /\ sent[n].encryption.iv = <<>>)
                  => IvSequence(sent[n].encryption) = sent[n].key[2]

\* the most recent map tag at or before index i of playlist p, as an option
LatestMap(p, i) ==
    LET mapped == {j \in 1..i : p.segments[j].map # <<>>}
    IN IF mapped = {} THEN <<>>
       ELSE p.segments[CHOOSE j \in mapped : \A k \in mapped : k <= j].map

\* the initialization the track holds for the tuple at position n of sent:
\* the one its most recent Segment::Initialization names, prev being the one
\* of the earlier cycles (the Sequence tuple itself names none)
InitializationOf(prev, sent, n) ==
    LET inits == {j \in 1..n : sent[j].kind = "Initialization"}
    IN IF inits = {} THEN prev
       ELSE sent[CHOOSE j \in inits : \A k \in inits : k <= j].init

\* fetch_segment: the initialization bytes, none when the segment has no
\* initialization, chained with the bytes of the segment
Payload(init, data) == init \o <<data>>

\* C23: once a segment of the playlist declares a map, the payload of that
\* segment and of every later Sequence segment starts with the bytes of the
\* most recently declared map; a redeclared map replaces the earlier one.
C23_PrefixedWithLatestMap ==
    (call # <<>> /\ result # <<>>) =>
        LET p == call[1].playlist
            sent == result[1].sent
        IN \A n \in 1..Len(sent) :
              (/\ sent[n].kind = "Sequence"
               /\ LatestMap(p, IndexOf(p, sent[n])) # <<>>)
                  => Payload(InitializationOf(call[1].init, sent, n), sent[n].key)[1]
                         = LatestMap(p, IndexOf(p, sent[n]))[1]

\* the number of segments of p at or before index i with the discontinuity
\* flag set
FlagsUpTo(p, i) == Cardinality({j \in 1..i : p.segments[j]})

\* C24: the discon_seq of every Sequence segment a cycle sends is the
\* playlist's discontinuity sequence plus the number of segments at or before
\* it in that playlist with the discontinuity flag set, skipped segments
\* counted too, whatever last_seg earlier cycles left.
C24_DisconSeqCountsFlags ==
    (call # <<>> /\ result # <<>>) =>
        LET p == call[1].playlist
            sent == result[1].cycle.sent
        IN \A n \in 1..Len(sent) :
              sent[n][1] = p.discontinuity_sequence
                             + FlagsUpTo(p, sent[n][2] - p.media_sequence + 1)

\* the first of two flagged segments is skipped, the second is sent, with a
\* discon_seq two above the playlist's
C24_Witness ==
    /\ call # <<>> /\ result # <<>>
    /\ LET p == call[1].playlist
       IN /\ p.segments = <<TRUE, TRUE>>
          /\ call[1].last_seg = <<p.discontinuity_sequence + 1, p.media_sequence>>
          /\ result[1].cycle.sent
                = <<<<p.discontinuity_sequence + 2, p.media_sequence + 1>>>>

\* key exceeds last-seen
Exceeds(key, last) == last = NoKey \/ KeyLT(last, key)

\* C25: a cycle that runs to its end sends every segment of the playlist
\* whose key exceeds last_seg, once and in playlist order, and nothing else;
\* last_seg ends as the key of the last segment sent.
C25_EveryNewSegmentSent ==
    (call # <<>> /\ result # <<>>) =>
        LET last == call[1].last_seg
            keys == PlaylistKeys(call[1].playlist)
            new == {i \in 1..Len(keys) :
                      /\ Exceeds(keys[i], last)
                      /\ \A j \in 1..(i - 1) : Exceeds(keys[i], keys[j])}
            c == result[1].cycle
        IN /\ Len(c.sent) = Cardinality(new)
           /\ \A i \in new :
                 c.sent[Cardinality({j \in new : j <= i})] = keys[i]
           /\ c.last_seg = IF new = {} THEN last ELSE c.sent[Len(c.sent)]

\* a playlist of two segments, the first seen before, the second new and of
\* a later discontinuity but a smaller sequence number than last_seg
C25_Witness ==
    /\ call # <<>> /\ result # <<>>
    /\ Len(call[1].playlist.segments) = 2
    /\ call[1].last_seg # NoKey
    /\ Len(result[1].cycle.sent) = 1
    /\ result[1].cycle.sent[1][2] < call[1].last_seg[2]
    /\ result[1].cycle.last_seg = result[1].cycle.sent[1]

\* the tuples of stream t in channel contents c
SentOf(c, t) == SelectSeq(c, LAMBDA it : it.stream = t)

\* the keys of playlist p that exceed last, in playlist order
NewKeys(p, last) == SelectSeq(PlaylistKeys(p), LAMBDA k : Exceeds(k, last))

\* C26: a cycle whose playlist declares end_list and meets no error sends
\* every new segment of the playlist and the task returns Ok, with no
\* sleep; a task that has returned so sends nothing and never polls or
\* sleeps again.
C26_EndListEnds ==
    [][\A t \in streams :
          /\ (/\ ppc[t] = "polling"
              /\ ppc'[t] \in {"ended", "waiting"}
              /\ call'[1].end_list)
                 => /\ ppc'[t] = "ended"
                    /\ chan' = chan \o Items(t, NewKeys(call'[1], last_seg[t]))
          /\ ppc[t] = "ended"
                 => /\ ppc'[t] = "ended"
                    /\ SentOf(chan', t) = SentOf(chan, t)]_vars

\* the fetcher has returned after a playlist with end_list that held a
\* segment not seen before
C26_Witness ==
    /\ ppc["main"] = "ended"
    /\ call # <<>>
    /\ call[1].end_list
    /\ Len(chan) >= 2
    /\ chan[Len(chan)].key = PlaylistKeys(call[1])[Len(call[1].segments)]

\* C27: a cycle whose playlist request or parse fails sends nothing and
\* ends the task with Err; the task never polls or sends again; the tuples
\* it sent in earlier cycles stay in the channel, leave it only into the
\* download pool, and all do so unless the capture is interrupted or aborted.
C27_FetchFailureKeepsQueue ==
    /\ [][\A t \in streams :
            /\ FetchPlaylistFail(t) =>
                  /\ ppc'[t] = "failed"
                  /\ chan' = chan
                  /\ inflight' = inflight
            /\ ppc[t] = "failed" =>
                  /\ ppc'[t] = "failed"
                  /\ last_seg'[t] = last_seg[t]
                  /\ Len(SentOf(chan', t)) <= Len(SentOf(chan, t))
                  /\ \A i \in 1..Len(chan) :
                        (\A j \in 1..Len(chan') : chan'[j] # chan[i])
                            => chan[i] \in inflight']_vars
    /\ \A t \in Streams :
          (t \in streams /\ ppc[t] = "failed")
              ~> (SentOf(chan, t) = <<>> \/ flag \/ exit_status # -1)

\* a fetcher has failed while a segment it sent earlier waits in the channel
C27_Witness ==
    /\ ppc["main"] = "failed"
    /\ SentOf(chan, "main") # <<>>
    /\ ~flag
    /\ exit_status = -1

\* the key tags the claim names: AES-128 without URI or with a keyformat
\* other than identity, SAMPLE-AES, and any method that is not NONE or AES-128
Rejected(k) ==
    \/ k.method = "AES-128" /\ k.uri = <<>>
    \/ k.method = "AES-128" /\ k.keyformat \notin {<<>>, <<"identity">>}
    \/ k.method = "SAMPLE-AES"
    \/ k.method \notin {"NONE", "AES-128", "SAMPLE-AES"}

\* the indices of the new segments of p that carry a rejected key tag
RejectedNew(p, last) ==
    {i \in 1..Len(p.segments) :
        /\ Exceeds(PlaylistKeys(Flags(p))[i], last)
        /\ p.segments[i].key # <<>>
        /\ Rejected(p.segments[i].key[1])}

\* C28: Encryption::new returns Err for every rejected key tag; a cycle that
\* reaches a new segment with such a tag ends the task with Err, having sent
\* the new segments before that segment and neither it nor any later one.
C28_RejectedKeyTagFails ==
    (call # <<>> /\ result # <<>>) =>
        LET p == call[1].playlist
            last == call[1].last_seg
            keys == PlaylistKeys(Flags(p))
            r == result[1]
            bad == RejectedNew(p, last)
            first == CHOOSE i \in bad : \A j \in bad : i <= j
            sequences == SelectSeq(r.sent, LAMBDA it : it.kind = "Sequence")
            before == {i \in 1..(first - 1) : Exceeds(keys[i], last)}
        IN /\ \A i \in 1..Len(p.segments) :
                 (p.segments[i].key # <<>> /\ Rejected(p.segments[i].key[1]))
                     => EncryptionNew(p.segments[i].key[1], keys[i][2])[1] = "Err"
           /\ bad # {} =>
                 /\ r.result = "Err"
                 /\ Len(sequences) = Cardinality(before)
                 /\ \A i \in before :
                       sequences[Cardinality({j \in before : j <= i})].key = keys[i]

\* the second segment carries a rejected key tag and the first, new as well,
\* was sent before the task failed
C28_Witness ==
    /\ call # <<>> /\ result # <<>>
    /\ Len(call[1].playlist.segments) = 2
    /\ RejectedNew(call[1].playlist, call[1].last_seg) = {2}
    /\ result[1].result = "Err"
    /\ Len(result[1].sent) >= 1
    /\ result[1].sent[Len(result[1].sent)].kind = "Sequence"

\* C29: a playlist, segment or key request whose final response is not 2xx
\* ends in the network error that carries the status code and the URL of the
\* response; its body is neither parsed as a playlist nor used as the AES key.
C29_Non2xxIsNetworkError ==
    (call # <<>> /\ result # <<>>) =>
        LET resp == call[1].response
        IN ~IsSuccess(resp.status) =>
              /\ result[1].outcome = "Err"
              /\ result[1].error = NetworkRequest(resp)
              /\ ~result[1].parsed
              /\ ~result[1].key

\* C30: every relative URI of a playlist body (variant and alternative media
\* of a master playlist, segment, map and key of a media playlist) becomes
\* the URL joined to the URL of the response that delivered the playlist,
\* redirects followed, not to the URL the request was sent to.
C30_ResolvedAgainstEffectiveUrl ==
    (call # <<>> /\ result # <<>>) =>
        LET resp == call[1].response
            uris == resp.body.uris
        IN (/\ result[1].outcome = "Ok"
            /\ \/ call[1].op = "Livestream::new" /\ resp.body.kind = "master"
               \/ call[1].op = "m3u8_fetcher" /\ resp.body.kind = "media")
              => \A i \in 1..Len(uris) :
                    uris[i][1] = "rel"
                        => result[1].urls[i] = [resp.url EXCEPT !.file = uris[i][2]]

\* C31: stop() sets the flag before it notifies, and the notification wakes
\* every task suspended in wait(); a task woken from wait() reads stopped()
\* as true, and so does every call of stopped() begun after a stop()
\* returned.
C31_StopWakesAfterFlag ==
    /\ [](\A u \in Users : users.pc[u] = "stopping" => flag)
    /\ [][\A u \in Users :
            (users.pc[u] = "stopping" /\ users'.pc[u] = "idle")
                => \A v \in Users :
                      users.pc[v] = "waiting"
                          => users'.pc[v] = "idle" /\ users'.woken[v]]_vars
    /\ [](\A u \in Users : users.woken[u] => (flag /\ users.seen[u] # "false"))
    /\ [](\A u \in Users : users.seen[u] = "false" => users.began[u] = 0)

\* two tasks were woken from wait() by one stop() and one of them has read
\* stopped() since
C31_Witness ==
    /\ users.stops = 1
    /\ users.woken["u1"] /\ users.woken["u2"]
    /\ users.seen["u1"] = "true"

\* C32: a wait() returns only when a stop() that notifies after the wait
\* began completes; a wait() begun after a stop() has returned stays
\* suspended, flag set or not, until a later stop().
C32_LateWaitNeedsLaterStop ==
    /\ [][\A u \in Users :
            (users.pc[u] = "waiting" /\ users'.pc[u] # "waiting")
                => /\ users'.stops = users.stops + 1
                   /\ users'.woken[u]]_vars
    /\ [](\A u \in Users : users.woken[u] => users.stops > users.began[u])

\* the flag is set, a stop() has returned, and a task that called wait()
\* afterwards is suspended
C32_Witness ==
    /\ flag
    /\ users.pc["u1"] = "waiting"
    /\ users.began["u1"] = 1
    /\ users.stops = 1
    /\ \A u \in Users : users.pc[u] # "stopping"

\* C33: the flag starts false, changes only in the first statement of
\* stop(), and once true is true in every later state, for all clones; a
\* further stop() leaves it true.
C33_FlagMonotonic ==
    /\ ~flag
    /\ [][flag => flag']_vars
    /\ [][flag' # flag =>
            \E u \in Users : users.pc[u] = "idle" /\ users'.pc[u] = "stopping"]_vars
    /\ [][\A u \in Users :
            (users.pc[u] = "idle" /\ users'.pc[u] = "stopping") => flag']_vars

\* stop() has been called twice and has returned twice
C33_Witness == flag /\ users.stops = 2 /\ \A u \in Users : users.pc[u] = "idle"

\* entries of a cache as a set
EntrySet(c) == {c[n] : n \in 1..Len(c)}

\* C34: the initialization cache of a stream never holds more than
\* max_concurrent_downloads entries, and never two for one resource. A lookup
\* is a hit exactly when the cache holds the resource (url and byte range),
\* and the hit returns the bytes of that entry; an entry is in a cache only
\* as it was inserted: the fetch of a miss that returns Ok puts the resource
\* with the fetched bytes in front and returns these bytes, and no other
\* step adds or changes an entry. When the fetch of a miss returns Err the
\* caches keep their entries and no other future of the pool changes.
C34_InitCache ==
    /\ [](\A t \in streams :
            LET c == init_lrus[t].entries
            IN /\ Len(c) <= max_concurrent_downloads
               /\ \A m, n \in 1..Len(c) : c[m].key = c[n].key => m = n)
    /\ [][\A d \in Slots :
            LET t == fetches[d].stream
                i == fetches[d].init
                c == init_lrus[t].entries
            IN /\ (fetches[d].pc = "lock" /\ fetches'[d].pc # "lock") =>
                     IF \E e \in EntrySet(c) : e.key = i
                     THEN /\ fetches'[d].pc = "payload"
                          /\ fetches'[d].how = "hit"
                          /\ [key |-> i, bytes |-> fetches'[d].init_bytes[1]]
                                \in EntrySet(c)
                          /\ EntrySet(init_lrus'[t].entries) = EntrySet(c)
                     ELSE /\ fetches'[d].pc = "init"
                          /\ init_lrus'[t].entries = c
               /\ (fetches[d].pc = "init" /\ fetches'[d].pc = "payload") =>
                     /\ fetches'[d].how = "fetched"
                     /\ Len(fetches'[d].init_bytes) = 1
                     /\ init_lrus'[t].entries[1]
                           = [key |-> i, bytes |-> fetches'[d].init_bytes[1]]
                     /\ EntrySet(init_lrus'[t].entries)
                           \subseteq EntrySet(c) \cup {init_lrus'[t].entries[1]}
               /\ (fetches[d].pc = "init" /\ fetches'[d].pc = "free") =>
                     /\ \A s \in Streams :
                           init_lrus'[s].entries = init_lrus[s].entries
                     /\ \A e \in Slots \ {d} :
                           [fetches'[e] EXCEPT !.raced = "no"]
                              = [fetches[e] EXCEPT !.raced = "no"]
               /\ (fetches[d].pc # "init" \/ fetches'[d].pc # "payload") =>
                     \/ t = "none"
                     \/ \E e \in Slots \ {d} :
                           /\ fetches[e].stream = t
                           /\ fetches[e].pc = "init"
                           /\ fetches'[e].pc = "payload"
                     \/ EntrySet(init_lrus'[t].entries) \subseteq EntrySet(c)
         ]_vars

\* a full cache, and a future that was served from it
C34_Witness ==
    \E d \in Slots :
        /\ fetches[d].how = "hit"
        /\ max_concurrent_downloads = MaxConcurrent
        /\ Len(init_lrus[fetches[d].stream].entries) = MaxConcurrent

\* the future d is suspended in lru.lock()
AtLock(d) == IF d \in Slots THEN fetches[d].pc = "lock" ELSE FALSE

\* the futures of the pool that are fetching an initialization of stream t
InitFetchers(t) ==
    {d \in Slots : fetches[d].pc = "init" /\ fetches[d].stream = t}

\* C35 (as amended): the lock of a stream's cache is held by a future
\* exactly from a lookup that misses to the end of its fetch of the
\* initialization, whether the fetch returns Ok (the insertion) or Err, and
\* by no future that fetches a payload or has returned: at most one
\* initialization fetch per stream is in flight. A future fetches an
\* initialization only when the cache does not hold the resource at its
\* lookup. And a future that waits for the lock gets it.
C35_LockScope ==
    /\ [](\A t \in streams :
            LET o == init_lrus[t].owner
            IN /\ InitFetchers(t) = IF o = 0 THEN {} ELSE {o}
               /\ Cardinality(InitFetchers(t)) <= 1)
    /\ [][\A d \in Slots :
            LET t == fetches[d].stream
            IN /\ (fetches[d].pc = "lock" /\ fetches'[d].pc = "init") =>
                     /\ init_lrus[t].owner = 0
                     /\ init_lrus'[t].owner = d
                     /\ LruIndex(init_lrus[t].entries, fetches[d].init) = 0
               /\ (fetches[d].pc = "init" /\ fetches'[d].pc # "init") =>
                     /\ init_lrus[t].owner = d
                     /\ init_lrus'[t].owner = 0
                     /\ fetches'[d].pc \in {"payload", "free"}
         ]_vars
    /\ \A d \in 1..MaxConcurrent : AtLock(d) ~> ~AtLock(d)

\* a future waits for the lock while another fetches the same initialization
C35_Witness ==
    \E d, e \in Slots :
        /\ fetches[d].pc = "init"
        /\ fetches[e].pc = "lock"
        /\ fetches[e].stream = fetches[d].stream
        /\ fetches[e].init = fetches[d].init

\* C35 (as stated): two futures that are in the pool together never both
\* request the same initialization resource from the network.
C35_NeverBothFetch ==
    \A d \in Slots :
        fetches[d].raced # "no" =>
            fetches[d].pc # "init" /\ fetches[d].how # "fetched"

\* the entries pushed to downloaded_segments so far, in order
Pushed == SelectSeq(result, LAMBDA e : e.pushed)

\* C36: the tuple that fetch_segment returns has the stream and the segment
\* of the tuple the fetcher sent, format included, and the entry that
\* save_segment pushes has that stream and that segment with one field
\* changed at most, the format, which is the one the probe detected: url,
\* byte range, discon_seq and seq are those sent, in whatever order the
\* fetches complete.
C36_SegmentUnchanged ==
    call # <<>> =>
        \A j \in 1..Len(result) :
            LET e == result[j]
                sent == call[1][e.n]
            IN /\ e.stream = sent.stream
               /\ e.step = "fetch" => e.segment = sent.segment
               /\ e.step = "save" =>
                     /\ j > 1 /\ result[j - 1].step = "fetch"
                     /\ result[j - 1].n = e.n
                     /\ [e.segment EXCEPT !.format = "Unknown"] = sent.segment
               /\ e.pushed => e.step = "save" /\ e.res = "Ok"

\* the second tuple sent is saved before the first, both with a format
\* other than the one they were sent with
C36_Witness ==
    /\ Len(Pushed) = 2
    /\ Pushed[1].n = 2
    /\ Pushed[2].n = 1
    /\ Pushed[1].segment.format = "FMp4"
    /\ Pushed[2].segment.format = "MpegTs"
    /\ Pushed[1].segment.kind = "Sequence"
    /\ Pushed[1].segment.byte_range # <<>>
    /\ Pushed[1].stream # Pushed[2].stream

\* C38: every entry pushed to the ledger is a Segment::Sequence.
C38_LedgerSequenceOnly ==
    \A j \in 1..Len(result) :
        result[j].pushed => result[j].segment.kind = "Sequence"

\* number of entries of the heap h that are k
CountIn(h, k) == Cardinality({i \in 1..Len(h) : h[i] = k})

\* C37: no step removes or changes an entry of the ledger, and a step adds
\* at most one: it is a step of save_segment for the completion the writer
\* holds, during capture, and the file of that segment is the one written
\* last. A save that fails leaves the ledger as it was, without an entry
\* for that segment. download() passes the ledger to remux only from the
\* capture, once the writer loop has ended, and never returns to the
\* capture; from then on the ledger does not change.
C37_LedgerGrows ==
    [][/\ ledger' # ledger =>
            \A t \in Streams :
                /\ \A k \in InLedger(t) :
                       CountIn(ledger'[t], k) >= CountIn(ledger[t], k)
                /\ Len(ledger'[t]) <= Len(ledger[t]) + 1
                /\ Len(ledger'[t]) > Len(ledger[t]) =>
                      /\ dpc = "capture" /\ wpc = "saving"
                      /\ wcur.stream = t /\ wcur.res = "ok"
                      /\ CountIn(ledger'[t], wcur.key)
                            = CountIn(ledger[t], wcur.key) + 1
                      /\ Len(files') = Len(files) + 1
                      /\ files'[Len(files')] = Item(t, wcur.key)
       /\ (wpc = "saving" /\ wpc' # "saving" /\ ledger' = ledger) =>
              wcur.key \notin InLedger(wcur.stream)
       /\ (dpc' = "concat" /\ dpc # "concat") => dpc = "capture" /\ wpc = "done"
       /\ dpc # "capture" => dpc' # "capture"
       /\ (dpc # "capture" \/ wpc = "done") => ledger' = ledger
      ]_vars

\* the ledger has been passed to remux with an entry, and without the
\* segment whose file was created but not written
C37_Witness ==
    /\ dpc = "concat"
    /\ Len(ledger["main"]) >= 1
    /\ \E i \in 1..Len(files) : files[i].key \notin InLedger(files[i].stream)

\* C39: the steps of the interrupt task for the first interrupt, the two
\* halves of stop(), leave the process running. The process ends either as
\* main ends it with the result of run, status 0 for Ok and 1 for Err (101
\* for a panic), or, whatever download() is doing, with status 1 once stop()
\* has returned: in the task spawned after stop() for the next interrupt.
C39_ForceOnlyAfterStop ==
    [][/\ sig' # sig => exit_status' = exit_status /\ exit_status = -1
       /\ (exit_status = -1 /\ exit_status' # -1) =>
             \/ dpc = "ok" /\ exit_status' = 0
             \/ dpc = "err" /\ exit_status' = 1
             \/ dpc' = "panicked" /\ exit_status' = 101
             \/ sig = "done" /\ exit_status' = 1
      ]_vars

\* the process was ended during the capture, after a stop()
C39_Witness ==
    /\ exit_status = 1
    /\ sig = "done"
    /\ dpc = "capture"
    /\ wpc # "done"

\* C40: when the playlist of an iteration has no end_list, the fetcher
\* either returns because it was stopped or polls again, and it polls again
\* at the instant that is the start of the iteration plus the target
\* duration when the iteration sent at least one segment, plus half the
\* target duration when it sent none (at once when the iteration itself
\* took longer); stopped, it returns no later than that.
C40_WaitFromCycleStart ==
    (call # <<>> /\ result # <<>>) =>
        LET a == call[1]
            r == result[1]
            wait == IF Len(r.sent) >= 1 THEN a.target_duration * 1000
                    ELSE a.target_duration * 500
            due == Max(a.now + a.took, a.now + wait)
        IN IF a.playlist.end_list THEN r.then = "ended"
           ELSE /\ r.then \in {"polling", "stopped"}
                /\ r.then = "polling" => r.at = due
                /\ r.then = "stopped" => r.at <= due /\ a.stop_at # -1
                /\ (a.stop_at = -1 \/ a.stop_at > due) => r.then = "polling"

\* an iteration begun at 250 that finds nothing new in a playlist of target
\* duration 2 polls again at 1250
C40_Witness ==
    /\ call # <<>> /\ result # <<>>
    /\ call[1].now = 250
    /\ call[1].target_duration = 2
    /\ call[1].took = 600
    /\ Len(call[1].playlist.segments) >= 1
    /\ result[1].sent = <<>>
    /\ result[1].then = "polling"
    /\ result[1].at = 1250

====
